---- MODULE Spec2Model ----
(***************************************************************************)
(* Model of the content-quality gate (ContentValidator), the HTML to       *)
(* Lexical conversion (GhostService.htmlToLexical) and the orchestrator    *)
(* step that joins them (BlogGenerator.generateAndCreateBlog), together     *)
(* with the topic history (TopicHistory), the batch loop                   *)
(* (BlogGenerator.generateBatch) and the retry loops of                    *)
(* AIContentGenerator.retryApiCall and ImageGenerator.generateFeaturedImage.*)
(*                                                                         *)
(* JavaScript strings are TLA+ strings; the regular expressions of the     *)
(* source are written out as scanners over character positions.            *)
(***************************************************************************)
EXTENDS Integers, Sequences, FiniteSets, TLC

VARIABLES
    doc,        \* the document as authored: a sequence of block segments
    html,       \* the string handed to htmlToLexical
    segThrows,  \* fault: parseHTMLBlocks throws
    throwsAt,   \* fault: indices of the blocks whose conversion throws
    convOut,    \* "input" | "returned" | "threw"
    children,   \* root.children of the returned Lexical document
    pc,         \* where generateAndCreateBlog stands
    template,   \* the template of the run
    blogPost,   \* what generateBlogPost returned
    imageResult,\* what generateFeaturedImage returned
    validation, \* what validatePost returned
    requests,   \* the HEAD requests validatePost issued
    ghostCalls, \* the calls of createDraft and createScheduledPost
    history,    \* what was recorded in the topic history
    thrown,     \* the message of the error the run threw
    network,    \* the outcomes of the HEAD requests of validatePost
    lastIndex,  \* lastIndex of the regular expressions validateVoice tested with
    second,     \* what a second validatePost on the same input returned
    file,       \* topic-history.json: for each persona its topic keys, newest first
    histOp,     \* the last call of a TopicHistory method and what it returned
    calls,      \* how many TopicHistory methods were called
    served,     \* for each persona the topics selected since its history was reset
    pending,    \* for each persona the selected topic that is not recorded yet
    batch,      \* where generateBatch stands and what it collected
    retry,      \* where retryApiCall stands and what it did
    img         \* where generateFeaturedImage stands and what it did

convVars == <<doc, html, segThrows, throwsAt, convOut, children>>

histVars == <<file, histOp, calls, served, pending>>

jobVars == <<batch, retry, img>>

libVars == <<file, histOp, calls, served, pending, batch, retry, img>>

--------------------------------------------------------------------------
(* String primitives                                                       *)

Min(S) == CHOOSE x \in S : \A y \in S : x <= y
Max(S) == CHOOSE x \in S : \A y \in S : x >= y

At(s, i) == SubSeq(s, i, i)

LowerMap ==
    ("A" :> "a") @@ ("B" :> "b") @@ ("C" :> "c") @@ ("D" :> "d") @@
    ("E" :> "e") @@ ("F" :> "f") @@ ("G" :> "g") @@ ("H" :> "h") @@
    ("I" :> "i") @@ ("J" :> "j") @@ ("K" :> "k") @@ ("L" :> "l") @@
    ("M" :> "m") @@ ("N" :> "n") @@ ("O" :> "o") @@ ("P" :> "p") @@
    ("Q" :> "q") @@ ("R" :> "r") @@ ("S" :> "s") @@ ("T" :> "t") @@
    ("U" :> "u") @@ ("V" :> "v") @@ ("W" :> "w") @@ ("X" :> "x") @@
    ("Y" :> "y") @@ ("Z" :> "z")

LowerChar(c) == IF c \in DOMAIN LowerMap THEN LowerMap[c] ELSE c

\* String.prototype.toLowerCase (halving keeps the recursion shallow)
RECURSIVE toLowerCase(_)
toLowerCase(s) ==
    IF Len(s) = 0 THEN ""
    ELSE IF Len(s) = 1 THEN LowerChar(s)
    ELSE toLowerCase(SubSeq(s, 1, Len(s) \div 2))
             \o toLowerCase(SubSeq(s, Len(s) \div 2 + 1, Len(s)))

\* \s of a JavaScript regular expression, and what String.trim removes
IsSpace(c) == c \in {" ", "\n", "\t", "\r"}

\* what "." of a JavaScript regular expression does not match
IsLineTerminator(c) == c \in {"\n", "\r"}

\* pat occurs in s at position i (case-sensitive)
MatchAt(s, i, pat) ==
    /\ i >= 1
    /\ i + Len(pat) - 1 <= Len(s)
    /\ SubSeq(s, i, i + Len(pat) - 1) = pat

\* pat (lower case) occurs in s at position i under the i flag
MatchAtCI(s, i, pat) ==
    /\ i >= 1
    /\ i + Len(pat) - 1 <= Len(s)
    /\ toLowerCase(SubSeq(s, i, i + Len(pat) - 1)) = pat

\* first position >= i where pat occurs, 0 when there is none
MinOr0(S) == IF S = {} THEN 0 ELSE Min(S)

IndexOf(s, pat, i) ==
    MinOr0({j \in i..(Len(s) - Len(pat) + 1) : SubSeq(s, j, j + Len(pat) - 1) = pat})

\* the same for a lower-case pat under the i flag
IndexOfCI(s, pat, i) == IndexOf(toLowerCase(s), pat, i)

\* the elements of a sequence whose index is not in the set drop
RECURSIVE Without(_, _, _)
Without(seq, drop, k) ==
    IF k > Len(seq) THEN <<>>
    ELSE (IF k \in drop THEN <<>> ELSE <<seq[k]>>) \o Without(seq, drop, k + 1)

\* String.prototype.trim
trim(s) ==
    LET Keep(keep) == IF keep = {} THEN "" ELSE SubSeq(s, Min(keep), Max(keep))
    IN  Keep({i \in 1..Len(s) : ~IsSpace(At(s, i))})

\* s.replace(/pat/g, rep) for a literal pattern
RECURSIVE ReplaceAll(_, _, _, _)
ReplaceAll(s, pat, rep, i) ==
    LET From(j) ==
            IF j = 0 THEN SubSeq(s, i, Len(s))
            ELSE SubSeq(s, i, j - 1) \o rep \o ReplaceAll(s, pat, rep, j + Len(pat))
    IN  From(IndexOf(s, pat, i))

\* first position >= i that holds no whitespace (Len(s)+1 when none)
SkipSpace(s, i) == Min({j \in i..Len(s) : ~IsSpace(At(s, j))} \cup {Len(s) + 1})

\* end of a match of /<br\s*\/?>/i starting at i, 0 when there is none
BrEnd(s, i) ==
    LET Close(k) == IF MatchAt(s, k, ">") THEN k ELSE 0
        Slash(j) == Close(IF MatchAt(s, j, "/") THEN j + 1 ELSE j)
    IN  IF ~MatchAtCI(s, i, "<br") THEN 0 ELSE Slash(SkipSpace(s, i + 3))

\* s.replace(/<br\s*\/?>/gi, '\n')
RECURSIVE ReplaceBr(_, _)
ReplaceBr(s, i) ==
    LET To(j, e) == SubSeq(s, i, j - 1) \o "\n" \o ReplaceBr(s, e + 1)
        From(j) == IF j = 0 THEN SubSeq(s, i, Len(s)) ELSE To(j, BrEnd(s, j))
    IN  From(MinOr0({j \in i..Len(s) : At(s, j) = "<" /\ BrEnd(s, j) # 0}))

\* s.replace(/<[^>]*>/g, ''): a "<" with no later ">" stays
RECURSIVE StripTags(_, _)
StripTags(s, i) ==
    LET To(lt, gt) ==
            IF gt = 0 THEN SubSeq(s, i, Len(s))
            ELSE SubSeq(s, i, lt - 1) \o StripTags(s, gt + 1)
        From(lt) == IF lt = 0 THEN SubSeq(s, i, Len(s))
                    ELSE To(lt, IndexOf(s, ">", lt + 1))
    IN  From(IndexOf(s, "<", i))

\* GhostService.extractTextContent
extractTextContent(h) ==
    LET s1 == ReplaceBr(h, 1)
        s2 == StripTags(s1, 1)
        s3 == ReplaceAll(s2, "&nbsp;", " ", 1)
        s4 == ReplaceAll(s3, "&amp;", "&", 1)
        s5 == ReplaceAll(s4, "&lt;", "<", 1)
        s6 == ReplaceAll(s5, "&gt;", ">", 1)
        s7 == ReplaceAll(s6, "&quot;", "\"", 1)
    IN  trim(ReplaceAll(s7, "&#39;", "'", 1))
--------------------------------------------------------------------------
(* GhostService: HTML -> Lexical                                           *)

\* the alternatives of (h[1-6]|p|ul|ol|blockquote|pre), in the regex's order
BlockTagNames ==
    <<"h1", "h2", "h3", "h4", "h5", "h6", "p", "ul", "ol", "blockquote", "pre">>

\* One alternative of blockRegex tried at position i:
\*   <name [^>]* > ([\s\S]*?) </name>      (flags gi)
\* ok says whether it matches; content is group 2, last the match's last index.
BlockAlt(s, i, name) ==
    LET Fail == [ok |-> FALSE, type |-> name, content |-> "", last |-> 0]
        Close(gt, cl) ==
            IF cl = 0 THEN Fail
            ELSE [ok      |-> TRUE,
                  type    |-> name,
                  content |-> SubSeq(s, gt + 1, cl - 1),
                  last    |-> cl + Len(name) + 2]
        Open(gt) ==
            IF gt = 0 THEN Fail
            ELSE Close(gt, IndexOfCI(s, "</" \o name \o ">", gt + 1))
    IN  IF MatchAtCI(s, i, "<" \o name)
        THEN Open(IndexOf(s, ">", i + 1 + Len(name)))
        ELSE Fail

\* blockRegex at position i: the first alternative that matches
RECURSIVE BlockMatchFrom(_, _, _)
BlockMatchFrom(s, i, k) ==
    LET Try(m) == IF m.ok THEN m ELSE BlockMatchFrom(s, i, k + 1)
    IN  IF k > Len(BlockTagNames) THEN [ok |-> FALSE]
        ELSE Try(BlockAlt(s, i, BlockTagNames[k]))

BlockMatchAt(s, i) ==
    IF At(s, i) # "<" THEN [ok |-> FALSE] ELSE BlockMatchFrom(s, i, 1)

\* GhostService.parseHTMLBlocks: the while loop over blockRegex.exec
RECURSIVE ScanBlocks(_, _)
ScanBlocks(s, i) ==
    LET Match(lt, m) ==
            IF m.ok
            THEN <<[type |-> m.type, rawContent |-> m.content]>>
                     \o ScanBlocks(s, m.last + 1)
            ELSE ScanBlocks(s, lt + 1)
        From(lt) == IF lt = 0 THEN <<>> ELSE Match(lt, BlockMatchAt(s, lt))
    IN  From(IndexOf(s, "<", i))

parseHTMLBlocks(h) == ScanBlocks(h, 1)

\* The three alternatives of inlineRegex tried at position i (flags gi):
\*   <strong>(.*?)</strong> | <a\s+href=["']([^"']+)["'][^>]*>(.*?)</a> | ([^<]+)
\* ok says whether the alternative matches; g and url are its capture groups.
NoLineTerminator(s, a, b) == \A k \in a..b : ~IsLineTerminator(At(s, k))

StrongAlt(s, i) ==
    LET Fail == [ok |-> FALSE, g |-> "", last |-> 0]
        Close(cl) ==
            IF cl # 0 /\ NoLineTerminator(s, i + 8, cl - 1)
            THEN [ok |-> TRUE, g |-> SubSeq(s, i + 8, cl - 1), last |-> cl + 8]
            ELSE Fail
    IN  IF MatchAtCI(s, i, "<strong>")
        THEN Close(IndexOfCI(s, "</strong>", i + 8))
        ELSE Fail

IsQuote(c) == c \in {"\"", "'"}

SkipNonQuote(s, i) == Min({j \in i..Len(s) : IsQuote(At(s, j))} \cup {Len(s) + 1})

AnchorAlt(s, i) ==
    LET Fail == [ok |-> FALSE, url |-> "", g |-> "", last |-> 0]
        Close(q1, q2, gt, cl) ==
            IF cl # 0 /\ NoLineTerminator(s, gt + 1, cl - 1)
            THEN [ok   |-> TRUE,
                  url  |-> SubSeq(s, q1 + 1, q2 - 1),
                  g    |-> SubSeq(s, gt + 1, cl - 1),
                  last |-> cl + 3]
            ELSE Fail
        Attrs(q1, q2, gt) ==
            IF gt = 0 THEN Fail
            ELSE Close(q1, q2, gt, IndexOfCI(s, "</a>", gt + 1))
        Url(q1, q2) ==
            IF q2 > q1 + 1 /\ q2 <= Len(s)
            THEN Attrs(q1, q2, IndexOf(s, ">", q2 + 1))
            ELSE Fail
        Href(ws) ==
            IF /\ ws > i + 2
               /\ MatchAtCI(s, ws, "href=")
               /\ ws + 5 <= Len(s)
               /\ IsQuote(At(s, ws + 5))
            THEN Url(ws + 5, SkipNonQuote(s, ws + 6))
            ELSE Fail
    IN  IF MatchAtCI(s, i, "<a") THEN Href(SkipSpace(s, i + 2)) ELSE Fail

\* .+ in the place of [^<]+: the plain text runs to the end of the string
SkipToEnd(s, i) == Len(s) + 1

\* [^<]+ from position i: the first position that holds "<"
SkipNonLt(s, i) == Min({j \in i..Len(s) : At(s, j) = "<"} \cup {Len(s) + 1})

\* a <strong> span pushed without its format
BoldNodeUnformatted(g) ==
    LET Node(boldText) ==
            IF g # "" /\ trim(boldText) # ""
            THEN <<[type |-> "text", text |-> boldText, format |-> 0, url |-> ""]>>
            ELSE <<>>
    IN  Node(extractTextContent(g))

\* the nodes pushed for one match of inlineRegex (none, or one)
BoldNode(g) ==
    LET Node(boldText) ==
            IF g # "" /\ trim(boldText) # ""
            THEN <<[type |-> "text", text |-> boldText, format |-> 1, url |-> ""]>>
            ELSE <<>>
    IN  Node(extractTextContent(g))

LinkNode(linkUrl, g) ==
    LET Node(linkText) ==
            IF g # "" /\ trim(linkText) # ""
            THEN <<[type |-> "link", text |-> linkText, format |-> 0, url |-> linkUrl]>>
            ELSE <<>>
    IN  Node(extractTextContent(g))

PlainNode(g) ==
    LET Node(plainText) ==
            IF plainText # ""
            THEN <<[type |-> "text", text |-> plainText, format |-> 0, url |-> ""]>>
            ELSE <<>>
    IN  Node(trim(g))

\* the while loop of parseInlineContent over inlineRegex.exec
RECURSIVE ScanInline(_, _)
ScanInline(s, i) ==
    LET Plain(e) == PlainNode(SubSeq(s, i, e - 1)) \o ScanInline(s, e)
        Anchor(m) ==
            IF m.ok THEN LinkNode(m.url, m.g) \o ScanInline(s, m.last + 1)
            ELSE ScanInline(s, i + 1)
        Strong(m) ==
            IF m.ok THEN BoldNode(m.g) \o ScanInline(s, m.last + 1)
            ELSE Anchor(AnchorAlt(s, i))
    IN  IF i > Len(s) THEN <<>>
        ELSE IF At(s, i) # "<" THEN Plain(SkipNonLt(s, i))
        ELSE Strong(StrongAlt(s, i))

\* GhostService.parseInlineContent
parseInlineContent(h) ==
    LET Fallback(text) ==
            IF trim(text) # ""
            THEN <<[type |-> "text", text |-> text, format |-> 0, url |-> ""]>>
            ELSE <<>>
        Nodes(nodes) ==
            IF nodes # <<>> THEN nodes ELSE Fallback(extractTextContent(h))
    IN  Nodes(ScanInline(h, 1))

\* /<li[^>]*>([\s\S]*?)<\/li>/gi at position i
LiAlt(s, i) ==
    LET Fail == [ok |-> FALSE, g |-> "", last |-> 0]
        Close(gt, cl) ==
            IF cl = 0 THEN Fail
            ELSE [ok |-> TRUE, g |-> SubSeq(s, gt + 1, cl - 1), last |-> cl + 4]
        Open(gt) == IF gt = 0 THEN Fail ELSE Close(gt, IndexOfCI(s, "</li>", gt + 1))
    IN  IF MatchAtCI(s, i, "<li") THEN Open(IndexOf(s, ">", i + 3)) ELSE Fail

\* GhostService.extractListItems
RECURSIVE ScanListItems(_, _)
ScanListItems(s, i) ==
    LET Item(text) == IF text # "" THEN <<text>> ELSE <<>>
        Match(lt, m) ==
            IF m.ok THEN Item(trim(m.g)) \o ScanListItems(s, m.last + 1)
            ELSE ScanListItems(s, lt + 1)
        From(lt) == IF lt = 0 THEN <<>> ELSE Match(lt, LiAlt(s, lt))
    IN  From(IndexOf(s, "<", i))

extractListItems(h) == ScanListItems(h, 1)

\* convertBlockToLexical returns null
Null == [type |-> "null"]

\* the list node of convertBlockToLexical, null when there are no items
ListNode(listType, items) ==
    IF Len(items) > 0
    THEN [type     |-> "list",
          listType |-> listType,
          children |-> [k \in 1..Len(items) |->
                           [type     |-> "listitem",
                            children |-> <<[type     |-> "paragraph",
                                            children |-> parseInlineContent(items[k])]>>]]]
    ELSE Null

\* GhostService.convertBlockToLexical
convertBlockToLexical(block) ==
    LET type == block.type
        rawContent == block.rawContent
        Heading(text) ==
            IF trim(text) # ""
            THEN [type |-> "heading", tag |-> type,
                  children |-> parseInlineContent(rawContent)]
            ELSE Null
        Paragraph(text) ==
            IF trim(text) # ""
            THEN [type |-> "paragraph", tag |-> "",
                  children |-> parseInlineContent(rawContent)]
            ELSE Null
        Quote(text) ==
            IF trim(text) # ""
            THEN [type |-> "quote", tag |-> "",
                  children |-> <<[type |-> "paragraph",
                                  children |-> <<[type |-> "text", text |-> trim(text),
                                                  format |-> 0, url |-> ""]>>]>>]
            ELSE Null
    IN  IF At(type, 1) = "h" THEN Heading(extractTextContent(rawContent))
        ELSE IF type = "p" THEN Paragraph(extractTextContent(rawContent))
        ELSE IF type = "ul" THEN ListNode("bullet", extractListItems(rawContent))
        ELSE IF type = "ol" THEN ListNode("number", extractListItems(rawContent))
        ELSE IF type = "blockquote" THEN Quote(extractTextContent(rawContent))
        ELSE Null

\* the paragraph pushed by the outer catch of htmlToLexical
FallbackParagraph ==
    [type |-> "paragraph", tag |-> "",
     children |-> <<[type |-> "text",
                     text |-> "Content conversion error - please edit manually",
                     format |-> 0, url |-> ""]>>]

\* ConvertBlocks without the per-block try/catch: the first throwing block
\* ends the loop in the outer catch, which pushes the fallback paragraph.
RECURSIVE ConvertBlocksNoBlockCatch(_, _, _, _)
ConvertBlocksNoBlockCatch(blocks, k, skipFirstH1, fails) ==
    IF k > Len(blocks) THEN <<>>
    ELSE IF k \in fails THEN <<FallbackParagraph>>
    ELSE LET Push(lexicalNode) ==
                 IF lexicalNode = Null
                 THEN ConvertBlocksNoBlockCatch(blocks, k + 1, skipFirstH1, fails)
                 ELSE IF blocks[k].type = "h1" /\ ~skipFirstH1
                      THEN ConvertBlocksNoBlockCatch(blocks, k + 1, TRUE, fails)
                      ELSE <<lexicalNode>>
                               \o ConvertBlocksNoBlockCatch(blocks, k + 1, skipFirstH1, fails)
         IN  Push(convertBlockToLexical(blocks[k]))

\* The for loop of htmlToLexical over blocks k..Len(blocks); fails is the set
\* of block indices at which convertBlockToLexical throws (caught per block).
RECURSIVE ConvertBlocks(_, _, _, _)
ConvertBlocks(blocks, k, skipFirstH1, fails) ==
    IF k > Len(blocks) THEN <<>>
    ELSE IF k \in fails
         THEN ConvertBlocks(blocks, k + 1, skipFirstH1, fails)
    ELSE LET Push(lexicalNode) ==
                 IF lexicalNode = Null
                 THEN ConvertBlocks(blocks, k + 1, skipFirstH1, fails)
                 ELSE IF blocks[k].type = "h1" /\ ~skipFirstH1
                      THEN ConvertBlocks(blocks, k + 1, TRUE, fails)
                      ELSE <<lexicalNode>>
                               \o ConvertBlocks(blocks, k + 1, skipFirstH1, fails)
         IN  Push(convertBlockToLexical(blocks[k]))

\* GhostService.htmlToLexical: [threw, children]; segFail says that
\* parseHTMLBlocks throws, which the outer catch turns into the fallback.
htmlToLexical(h, segFail, fails) ==
    IF segFail
    THEN [threw |-> FALSE, children |-> <<FallbackParagraph>>]
    ELSE [threw |-> FALSE,
          children |-> ConvertBlocks(parseHTMLBlocks(h), 1, FALSE, fails)]
--------------------------------------------------------------------------
(* ContentValidator: text utilities                                        *)

\* A post body of 800 and more words is written with the filler character
\* "~", which stands for a run of FillerWords one-character words "- ": each
\* is a hyphen and a space.  A filler is no word character, no markup and no
\* sentence end, so the regular expressions of the validator pass over it as
\* over any other character; only counts of words and offsets into the string
\* depend on what it stands for.
FillerWords == 100

FillerChars == 2 * FillerWords

Fillers(s) == {i \in 1..Len(s) : At(s, i) = "~"}

\* the JavaScript index (from 0, -1 for none) of the position i (from 1, 0 for none)
JsIndex(s, i) ==
    IF i = 0 THEN -1
    ELSE (i - 1) + (FillerChars - 1) * Cardinality({j \in Fillers(s) : j < i})

\* s.length
Length(s) == Len(s) + (FillerChars - 1) * Cardinality(Fillers(s))

LowerLetters == {LowerMap[c] : c \in DOMAIN LowerMap}

Digits == {"0", "1", "2", "3", "4", "5", "6", "7", "8", "9"}

\* the characters of \w
WordChars == LowerLetters \cup DOMAIN LowerMap \cup Digits \cup {"_"}

\* \w of a regular expression; positions outside the string hold no character
IsWordAt(s, i) ==
    /\ i >= 1
    /\ i <= Len(s)
    /\ At(s, i) \in WordChars

\* \b of a regular expression, between the positions i - 1 and i
WordBoundary(s, i) == IsWordAt(s, i - 1) # IsWordAt(s, i)

\* the non-empty pieces of s.split(/\s+/): a piece starts at a character that
\* is no whitespace and follows whitespace, and a filler adds its words
SplitWords(s) ==
    Cardinality({i \in 1..Len(s) :
                    /\ ~IsSpace(At(s, i))
                    /\ (i = 1 \/ IsSpace(At(s, i - 1)) \/ At(s, i - 1) = "~")})
        + (FillerWords - 1) * Cardinality(Fillers(s))

\* s.split(/\s+/).length for a trimmed string: the empty string gives ['']
SplitLength(s) == IF s = "" THEN 1 ELSE SplitWords(s)

\* s.includes(pat)
Includes(s, pat) == IndexOf(s, pat, 1) # 0

\* a lower-case literal under the flags gi: the positions where it matches
LiteralAtCI(s, pat) ==
    LET Hits(lower) ==
            {i \in 1..(Len(lower) - Len(pat) + 1) : SubSeq(lower, i, i + Len(pat) - 1) = pat}
    IN  Hits(toLowerCase(s))

\* one of the alternatives matches at position i
AnyAt(s, i, alts) == \E a \in alts : MatchAt(s, i, a)

\* one entry of errors or warnings, pushed when cond holds
Push(cond, message) == IF cond THEN <<message>> ELSE <<>>

\* ContentValidator.countWords
countWords(h) == SplitWords(trim(extractTextContent(h)))
--------------------------------------------------------------------------
(* ContentValidator.validateTitle                                          *)

maxTitleLength == 60

genericTerms == {"strategies", "guide", "tips", "ways", "methods"}

HasDigit(s) == \E i \in 1..Len(s) : At(s, i) \in Digits

\* s.endsWith(pat)
EndsWith(s, pat) == MatchAt(s, Len(s) - Len(pat) + 1, pat)

\* trimmedTitle.length > 60, with the bound left out of the limit
TitleTooLongInclusive(trimmedTitle) == Len(trimmedTitle) >= maxTitleLength

\* trimmedTitle.length > 60
TitleTooLong(trimmedTitle) == Len(trimmedTitle) > maxTitleLength

validateTitle(title) ==
    LET Result(errors, warnings) ==
            [valid |-> errors = <<>>, errors |-> errors, warnings |-> warnings]
        IsGeneric(lower) ==
            /\ \E term \in genericTerms : Includes(lower, term)
            /\ ~(\/ HasDigit(lower)
                 \/ \E region \in {"singapore", "apac", "sea"} : Includes(lower, region))
        Check(trimmedTitle) ==
            Result(
                Push(TitleTooLong(trimmedTitle),
                     "Title too long (" \o ToString(Len(trimmedTitle)) \o " chars, max 60)")
                \o Push(EndsWith(trimmedTitle, "..."),
                        "Title appears incomplete (ends with ...)"),
                Push(Len(trimmedTitle) < 30,
                     "Title quite short (" \o ToString(Len(trimmedTitle))
                         \o " chars, recommend 40-60)")
                \o Push(IsGeneric(toLowerCase(trimmedTitle)),
                        "Title may be too generic - consider adding specificity (numbers, location, outcome)"))
    IN  IF Len(trim(title)) = 0
        THEN [valid |-> FALSE, errors |-> <<"Title is empty">>, warnings |-> <<>>]
        ELSE Check(trim(title))
--------------------------------------------------------------------------
(* ContentValidator: the structure of the HTML                             *)

\* html.match(/<p[^>]*>[\s\S]*?<\/p>/gi): the matched substrings in order
RECURSIVE ScanParagraphs(_, _)
ScanParagraphs(s, i) ==
    LET Match(lt, m) ==
            IF m.ok THEN <<SubSeq(s, lt, m.last)>> \o ScanParagraphs(s, m.last + 1)
            ELSE ScanParagraphs(s, lt + 1)
        From(lt) == IF lt = 0 THEN <<>> ELSE Match(lt, BlockAlt(s, lt, "p"))
    IN  From(IndexOf(s, "<", i))

\* ContentValidator.countParagraphs
countParagraphs(h) == Len(ScanParagraphs(h, 1))

HeadingLevels == {"1", "2", "3", "4", "5", "6"}

\* /<h([1-6])[^>]*>([\s\S]*?)<\/h\1>/gi at position i
HeadingAlt(s, i) ==
    IF i + 2 <= Len(s) /\ MatchAtCI(s, i, "<h") /\ At(s, i + 2) \in HeadingLevels
    THEN BlockAlt(s, i, "h" \o At(s, i + 2))
    ELSE [ok |-> FALSE]

\* ContentValidator.extractHeadings: [level, text] of every heading
RECURSIVE ScanHeadings(_, _)
ScanHeadings(s, i) ==
    LET Match(lt, m) ==
            IF m.ok
            THEN <<[level |-> At(m.type, 2), text |-> trim(StripTags(m.content, 1))]>>
                     \o ScanHeadings(s, m.last + 1)
            ELSE ScanHeadings(s, lt + 1)
        From(lt) == IF lt = 0 THEN <<>> ELSE Match(lt, HeadingAlt(s, lt))
    IN  From(IndexOf(s, "<", i))

extractHeadings(h) == ScanHeadings(h, 1)

\* /<h[1-6][^>]*>[\s\S]*?<\/h[1-6]>/gi at position i: the last index of the
\* match, 0 when there is none
AnyHeadingEnd(s, i) ==
    LET Close(gt) ==
            MinOr0({j \in (gt + 1)..(Len(s) - 4) :
                       /\ MatchAtCI(s, j, "</h")
                       /\ At(s, j + 3) \in HeadingLevels
                       /\ At(s, j + 4) = ">"})
        Open(gt) == IF gt = 0 THEN 0 ELSE Close(gt)
        Last(cl) == IF cl = 0 THEN 0 ELSE cl + 4
    IN  IF i + 2 <= Len(s) /\ MatchAtCI(s, i, "<h") /\ At(s, i + 2) \in HeadingLevels
        THEN Last(Open(IndexOf(s, ">", i + 3)))
        ELSE 0

\* html.match(/<h[1-6]...>/gi): the number of successive matches from
\* position i on
RECURSIVE HeadingMatches(_, _)
HeadingMatches(s, i) ==
    LET Match(lt, e) ==
            IF e # 0 THEN 1 + HeadingMatches(s, e + 1)
            ELSE HeadingMatches(s, lt + 1)
        From(lt) == IF lt = 0 THEN 0 ELSE Match(lt, AnyHeadingEnd(s, lt))
    IN  From(IndexOf(s, "<", i))

\* ContentValidator.countHeadings
countHeadings(h) == HeadingMatches(h, 1)

\* /<a[^>]*href=[^>]*>[\s\S]*?<\/a>/gi at position i
AnchorEnd(s, i) ==
    LET Last(cl) == IF cl = 0 THEN 0 ELSE cl + 3
        Open(gt) ==
            IF gt # 0 /\ \E h \in (i + 2)..(gt - 5) : MatchAtCI(s, h, "href=")
            THEN Last(IndexOfCI(s, "</a>", gt + 1))
            ELSE 0
    IN  IF MatchAtCI(s, i, "<a") THEN Open(IndexOf(s, ">", i + 2)) ELSE 0

\* html.match(/<a[^>]*href=...>/gi): the number of successive matches from
\* position i on
RECURSIVE AnchorMatches(_, _)
AnchorMatches(s, i) ==
    LET Match(lt, e) ==
            IF e # 0 THEN 1 + AnchorMatches(s, e + 1)
            ELSE AnchorMatches(s, lt + 1)
        From(lt) == IF lt = 0 THEN 0 ELSE Match(lt, AnchorEnd(s, lt))
    IN  From(IndexOf(s, "<", i))

\* ContentValidator.countLinks
countLinks(h) == AnchorMatches(h, 1)

\* /<a[^>]*href=["']([^"']*)["'][^>]*>/gi at position i.  [^>]* is greedy, so
\* of the href attributes before the first ">" the last one that lets the
\* rest match is taken; the url may itself hold a ">".
LinkAlt(s, i) ==
    LET Fail == [ok |-> FALSE, url |-> "", last |-> 0]
        UrlEnd(h) == SkipNonQuote(s, h + 6)
        TagEnd(h) == IF UrlEnd(h) > Len(s) THEN 0 ELSE IndexOf(s, ">", UrlEnd(h) + 1)
        Hrefs(gt) ==
            {h \in (i + 2)..(IF gt = 0 THEN Len(s) ELSE gt) :
                /\ MatchAtCI(s, h, "href=")
                /\ h + 5 <= Len(s)
                /\ IsQuote(At(s, h + 5))
                /\ TagEnd(h) # 0}
        Take(h) == [ok |-> TRUE, url |-> SubSeq(s, h + 6, UrlEnd(h) - 1), last |-> TagEnd(h)]
        Pick(hs) == IF hs = {} THEN Fail ELSE Take(Max(hs))
    IN  IF MatchAtCI(s, i, "<a") THEN Pick(Hrefs(IndexOf(s, ">", i + 2))) ELSE Fail

\* url.startsWith('http://') || url.startsWith('https://')
IsExternal(url) == MatchAt(url, 1, "http://") \/ MatchAt(url, 1, "https://")

\* ContentValidator.extractLinks
RECURSIVE ScanLinks(_, _)
ScanLinks(s, i) ==
    LET Match(lt, m) ==
            IF m.ok
            THEN (IF IsExternal(m.url) THEN <<m.url>> ELSE <<>>)
                     \o ScanLinks(s, m.last + 1)
            ELSE ScanLinks(s, lt + 1)
        From(lt) == IF lt = 0 THEN <<>> ELSE Match(lt, LinkAlt(s, lt))
    IN  From(IndexOf(s, "<", i))

extractLinks(h) == ScanLinks(h, 1)

IsSentenceEnd(c) == c \in {".", "!", "?"}

\* ContentValidator.findLongSentences, as the number of sentences found:
\* the pieces of text.split(/[.!?]+/) that hold more than 25 words
findLongSentences(h) ==
    LET Count(text) ==
            LET End(a) == Min({j \in a..Len(text) : IsSentenceEnd(At(text, j))}
                                  \cup {Len(text) + 1}) - 1
            IN  Cardinality({a \in 1..Len(text) :
                    /\ ~IsSentenceEnd(At(text, a))
                    /\ (a = 1 \/ IsSentenceEnd(At(text, a - 1)))
                    /\ SplitLength(trim(SubSeq(text, a, End(a)))) > 25})
    IN  Count(extractTextContent(h))
--------------------------------------------------------------------------
(* ContentValidator: voice, regional context, conclusion                   *)

\* the patterns of countFirstPersonUsage (flags gi): a head at a word
\* boundary, then \s+ (spaced) or nothing more, then one of the alternatives
firstPersonPatterns ==
    <<[head |-> "i", spaced |-> TRUE,
       alts |-> {"believe", "think", "see", "find", "argue", "contend",
                 "suggest", "recommend", "ve", "have"}],
      [head |-> "we", spaced |-> TRUE,
       alts |-> {"believe", "see", "find", "argue", "recommend", "ve", "have"}],
      [head |-> "in my ", spaced |-> FALSE,
       alts |-> {"experience", "view", "work", "opinion"}],
      [head |-> "i've ", spaced |-> FALSE,
       alts |-> {"seen", "worked", "found", "learned", "witnessed"}],
      [head |-> "we've ", spaced |-> FALSE,
       alts |-> {"seen", "worked", "found", "learned"}]>>

\* the pattern p at position i of the lower-case string s
FirstPersonAt(s, i, p) ==
    LET After(j) == (~p.spaced \/ j > i + Len(p.head)) /\ AnyAt(s, j, p.alts)
    IN  /\ MatchAt(s, i, p.head)
        /\ WordBoundary(s, i)
        /\ After(IF p.spaced THEN SkipSpace(s, i + Len(p.head)) ELSE i + Len(p.head))

\* the matches of all patterns in the lower-case text (flag i); the matches
\* of one pattern cannot overlap
FirstPersonMatches(text) ==
    {m \in (1..Len(text)) \X (1..Len(firstPersonPatterns)) :
        FirstPersonAt(text, m[1], firstPersonPatterns[m[2]])}

\* ContentValidator.countFirstPersonUsage
countFirstPersonUsage(content) ==
    Cardinality(FirstPersonMatches(toLowerCase(extractTextContent(content))))

\* /\bword\b/ at position i
WordAt(s, i, word) ==
    /\ MatchAt(s, i, word)
    /\ WordBoundary(s, i)
    /\ WordBoundary(s, i + Len(word))

\* the six patterns of countRegionalMentions, [- ] written out
regionalPatterns ==
    {"singapore", "apac", "asia-pacific", "asia pacific", "southeast asia", "sea", "asean"}

\* the matches in the lower-case text (flag i)
RegionalMatches(text) ==
    {m \in (1..Len(text)) \X regionalPatterns : WordAt(text, m[1], m[2])}

\* ContentValidator.countRegionalMentions
countRegionalMentions(content) ==
    Cardinality(RegionalMatches(toLowerCase(extractTextContent(content))))

\* first position >= i that holds no word character
SkipWord(s, i) == Min({j \in i..Len(s) : ~IsWordAt(s, j)} \cup {Len(s) + 1})

\* /\b(is|are|was|were|been|being)\s+\w+ed\b/ at position i
PassiveAt(s, i) ==
    LET Word(j, e) == e - j >= 3 /\ MatchAt(s, e - 2, "ed")
        After(k, j) == j > k /\ Word(j, SkipWord(s, j))
        Verb(k) == After(k, SkipSpace(s, k))
    IN  /\ \E verb \in {"is", "are", "was", "were", "been", "being"} :
               MatchAt(s, i, verb) /\ Verb(i + Len(verb))
        /\ WordBoundary(s, i)

\* content.match(/\b(is|are|was|were|been|being)\s+\w+ed\b/gi): how many
passiveIndicators(content) ==
    LET Hits(lower) == Cardinality({i \in 1..Len(lower) : PassiveAt(lower, i)})
    IN  Hits(toLowerCase(content))

prohibitedPhrases == <<"this article", "this post", "this piece", "this blog">>

\* the regular expression objects validateVoice tests with, as their
\* lastIndex, when it keeps the objects of the call before
SharedPhraseRegExps(previous) ==
    IF previous = <<>> THEN [k \in 1..Len(prohibitedPhrases) |-> 0] ELSE previous

\* the regular expression objects validateVoice tests with, as their
\* lastIndex: the literals are evaluated at every call, so each starts at 0
\* whatever the objects of the call before (previous) were left with
NewPhraseRegExps(previous) == [k \in 1..Len(prohibitedPhrases) |-> 0]

\* phrase.test(content) under the flags gi: the search starts behind from
\* (lastIndex); the new lastIndex is the end of the match, 0 for no match
PhraseTest(content, phrase, from) ==
    LET End(hits) == IF hits = {} THEN 0 ELSE Min(hits) + Len(phrase) - 1
    IN  End({i \in LiteralAtCI(content, phrase) : i > from})

\* lastIndex of the regular expressions after validateVoice(content)
PhraseIndexes(content, previous) ==
    LET After(start) ==
            [k \in 1..Len(prohibitedPhrases) |->
                PhraseTest(content, prohibitedPhrases[k], start[k])]
    IN  After(NewPhraseRegExps(previous))

\* ContentValidator.validateVoice; previous is the lastIndex the regular
\* expressions of the call before were left with
validateVoice(content, previous) ==
    LET Result(errors, warnings) ==
            [valid |-> errors = <<>>, errors |-> errors, warnings |-> warnings]
        Prohibited(k) ==
            Push(PhraseIndexes(content, previous)[k] # 0,
                 "Found prohibited phrase \"" \o prohibitedPhrases[k]
                     \o "\" - must use first-person voice instead")
        FirstPerson(firstPersonCount) ==
            Push(firstPersonCount < 3,
                 "Insufficient first-person voice (found " \o ToString(firstPersonCount)
                     \o " instances, need at least 3)")
        Passive(n) ==
            Push(n > 10,
                 "High passive voice usage detected (" \o ToString(n)
                     \o " instances) - prefer active voice")
    IN  Result(Prohibited(1) \o Prohibited(2) \o Prohibited(3) \o Prohibited(4)
                   \o FirstPerson(countFirstPersonUsage(content)),
               Passive(passiveIndicators(content)))

\* ContentValidator.validateRegionalContext
validateRegionalContext(content) ==
    LET Result(errors, warnings) ==
            [valid |-> errors = <<>>, errors |-> errors, warnings |-> warnings]
        hasYears == \E year \in {"2023", "2024", "2025"} : Includes(content, year)
        SpecificExample(lower) ==
            \E i \in 1..Len(lower) :
                \E word \in {"startup", "company", "firm", "brand", "business"} :
                    WordAt(lower, i, word)
        hasSpecificExample == SpecificExample(toLowerCase(content))
        Check(regionalMentions) ==
            Result(
                Push(regionalMentions = 0,
                     "Missing regional context - must mention Singapore/APAC/Southeast Asia/SEA"),
                Push(regionalMentions = 1,
                     "Only one regional mention - recommend 2-3 throughout article")
                \o Push(~hasYears,
                        "No recent years mentioned (2023-2025) - examples should be dated")
                \o Push(~hasSpecificExample,
                        "Consider adding specific company or industry examples"))
    IN  Check(countRegionalMentions(content))

\* s.lastIndexOf(pat), as a position (0 for none)
LastIndexOf(s, pat) ==
    LET At0(hits) == IF hits = {} THEN 0 ELSE Max(hits)
    IN  At0({j \in 1..(Len(s) - Len(pat) + 1) : MatchAt(s, j, pat)})

\* how far before the last paragraph a heading still counts as its heading
conclusionWindow == 500

\* /<a\s+href/i.test(s)
HasAnchorHref(s) ==
    \E i \in 1..Len(s) :
        /\ MatchAtCI(s, i, "<a")
        /\ SkipSpace(s, i + 2) > i + 2
        /\ MatchAtCI(s, SkipSpace(s, i + 2), "href")

\* ContentValidator.validateConclusion
validateConclusion(content) ==
    LET Result(errors, warnings) ==
            [valid |-> errors = <<>>, errors |-> errors, warnings |-> warnings]
        Words(conclusionWords) ==
            Push(conclusionWords > 100,
                 "Conclusion is long (" \o ToString(conclusionWords)
                     \o " words) - recommend 30-60 words")
            \o Push(conclusionWords <= 100 /\ conclusionWords < 20,
                    "Conclusion is short (" \o ToString(conclusionWords)
                        \o " words) - recommend 30-60 words")
        Heading(lastHeadingIndex, lastParagraphIndex) ==
            Push(/\ lastHeadingIndex > 0
                 /\ lastHeadingIndex > lastParagraphIndex - conclusionWindow,
                 "Conclusion should NOT have a heading - end with 2-3 sentences only")
        Check(lastParagraph) ==
            Result(
                Heading(JsIndex(content, LastIndexOf(content, "<h2")),
                        JsIndex(content, LastIndexOf(content, lastParagraph)))
                \o Push(HasAnchorHref(lastParagraph),
                        "Conclusion should NOT contain hyperlinks"),
                Words(SplitLength(extractTextContent(lastParagraph))))
        Last(paragraphs) ==
            IF Len(paragraphs) = 0
            THEN [valid |-> FALSE, errors |-> <<"No paragraphs found in content">>,
                  warnings |-> <<>>]
            ELSE Check(paragraphs[Len(paragraphs)])
    IN  Last(ScanParagraphs(content, 1))
--------------------------------------------------------------------------
(* ContentValidator.validateContent                                        *)

minWordCount == 800

maxWordCount == 1600

minParagraphs == 8

genericHeadings == {"introduction", "conclusion", "overview", "background", "summary"}

IsLetterAt(s, i) == i >= 1 /\ i <= Len(s) /\ LowerChar(At(s, i)) \in LowerLetters

\* \s*\.\s*["']?\s*<\/p> (flag i) from position j on
SentenceTail(s, j) ==
    LET Close(b) ==
            \/ MatchAtCI(s, b, "</p>")
            \/ (b <= Len(s) /\ IsQuote(At(s, b)) /\ MatchAtCI(s, SkipSpace(s, b + 1), "</p>"))
        Dot(a) == MatchAt(s, a, ".") /\ Close(SkipSpace(s, a + 1))
    IN  Dot(SkipSpace(s, j))

\* /[a-z]\s*\.\s*["']?\s*<\/p>/i.test(s)
incompletePattern(s) ==
    \E i \in 1..Len(s) : IsLetterAt(s, i) /\ SentenceTail(s, i + 1)

\* s.match(/\b[a-z]{1,2}\s*\.\s*["']?\s*<\/p>/gi) is not null
potentiallyIncomplete(s) ==
    \E i \in 1..Len(s) :
        /\ WordBoundary(s, i)
        /\ IsLetterAt(s, i)
        /\ (SentenceTail(s, i + 1) \/ (IsLetterAt(s, i + 1) /\ SentenceTail(s, i + 2)))

\* wordCount <= this.minWordCount
BelowMinimumInclusive(wordCount) == wordCount <= minWordCount

\* wordCount < this.minWordCount
BelowMinimum(wordCount) == wordCount < minWordCount

\* wordCount > this.maxWordCount
AboveMaximum(wordCount) == wordCount > maxWordCount

\* templateType === 'How-To / Playbook'
faqRequired(templateType) == templateType = "How-To / Playbook"

validateContent(content, templateType) ==
    LET Result(errors, warnings) ==
            [valid |-> errors = <<>>, errors |-> errors, warnings |-> warnings]
        LevelCount(headings, level) ==
            Cardinality({k \in 1..Len(headings) : headings[k].level = level})
        IsGenericHeading(h) == toLowerCase(h.text) \in genericHeadings
        Generic(found) ==
            [k \in 1..Len(found) |->
                "Generic heading found: \"" \o found[k].text
                    \o "\" - make headings more specific and valuable"]
        hasFAQ(headings) ==
            \E k \in 1..Len(headings) :
                \/ Includes(toLowerCase(headings[k].text), "frequently asked questions")
                \/ Includes(toLowerCase(headings[k].text), "faq")
        TooShort(wordCount) ==
            Push(BelowMinimum(wordCount),
                 "Content too short (" \o ToString(wordCount) \o " words, minimum "
                     \o ToString(minWordCount) \o ")")
        TooLong(wordCount) ==
            Push(~BelowMinimum(wordCount) /\ AboveMaximum(wordCount),
                 "Content quite long (" \o ToString(wordCount) \o " words, target "
                     \o ToString(minWordCount) \o "-" \o ToString(maxWordCount) \o ")")
        FewParagraphs(paragraphCount) ==
            Push(paragraphCount < minParagraphs,
                 "Few paragraphs (" \o ToString(paragraphCount) \o ", recommend at least "
                     \o ToString(minParagraphs) \o ")")
        LongSentences(n) ==
            Push(n > 5,
                 ToString(n) \o " sentences exceed 25 words - aim for 15-20 words per sentence")
        H1(h1Count) ==
            Push(h1Count = 0, "No H1 heading found - Ghost will use title")
            \o Push(h1Count > 1,
                    "Multiple H1 headings found (" \o ToString(h1Count) \o ") - should be only 1")
        H2(h2Count) ==
            Push(h2Count < 4,
                 "Few H2 headings (" \o ToString(h2Count)
                     \o ", recommend at least 4-6 for readability)")
        Lists ==
            Push(~Includes(content, "<ul>") /\ ~Includes(content, "<ol>"),
                 "No lists found - consider adding for readability")
        Bold ==
            Push(LiteralAtCI(content, "<strong>") = {},
                 "No bold text found - use <strong> to emphasize key points (3-5 times)")
        Incomplete ==
            Push(incompletePattern(content) /\ potentiallyIncomplete(content),
                 "Possible incomplete sentences detected - verify all sentences are complete")
        Check(wordCount, headings) ==
            Result(
                TooShort(wordCount)
                \o Push(faqRequired(templateType) /\ ~hasFAQ(headings),
                        "FAQ section required for How-To/Playbook template"),
                TooLong(wordCount)
                \o FewParagraphs(countParagraphs(content))
                \o LongSentences(findLongSentences(content))
                \o H1(LevelCount(headings, "1"))
                \o H2(LevelCount(headings, "2"))
                \o Generic(SelectSeq(headings, IsGenericHeading))
                \o Lists
                \o Bold
                \o Incomplete)
    IN  IF Len(trim(content)) = 0
        THEN [valid |-> FALSE, errors |-> <<"Content is empty">>, warnings |-> <<>>]
        ELSE Check(countWords(content), extractHeadings(content))
--------------------------------------------------------------------------
(* ContentValidator: SEO metadata, image, links, validatePost              *)

\* (num / den * 100).toFixed(2) for a positive quotient
toFixed2(num, den) ==
    LET Digits2(n) == (IF n < 10 THEN "0" ELSE "") \o ToString(n)
        Show(hundredths) ==
            ToString(hundredths \div 100) \o "." \o Digits2(hundredths % 100)
    IN  IF den = 0 THEN (IF num = 0 THEN "NaN" ELSE "Infinity")
        ELSE Show((20000 * num + den) \div (2 * den))

\* the quantifiers + and *
Quantifiers == {"+", "*"}

\* new RegExp(source, 'g') throws a SyntaxError (nothing to repeat): a
\* quantifier at the start of the source or right behind a quantifier
InvalidPattern(source) ==
    \E i \in 1..Len(source) :
        /\ At(source, i) \in Quantifiers
        /\ (i = 1 \/ At(source, i - 1) \in Quantifiers \cup {"?"})

\* validateSEO throws, and validatePost with it: the keyword is made a
\* regular expression as it is
validatePostThrows(postData) ==
    postData.keyword # "" /\ InvalidPattern(toLowerCase(postData.keyword))

RegExpError == "Invalid regular expression: Nothing to repeat"

\* ContentValidator.validateSEO; a missing field of postData is "".  The
\* keyword holds no metacharacter of a regular expression here: the keywords
\* that do are those of validatePostThrows.
validateSEO(postData) ==
    LET Result(errors, warnings) ==
            [valid |-> errors = <<>>, errors |-> errors, warnings |-> warnings]
        MetaTitle(n) ==
            Push(n = 0, "Meta title is missing")
            \o Push(n > 60, "Meta title too long (" \o ToString(n) \o " chars, max 60)")
        DescriptionError(descLength) ==
            Push(descLength = 0, "Meta description is missing")
            \o Push(descLength > 160,
                    "Meta description too long (" \o ToString(descLength) \o " chars, max 160)")
        DescriptionWarning(descLength) ==
            Push(descLength > 0 /\ descLength < 150,
                 "Meta description short (" \o ToString(descLength)
                     \o " chars, recommend 150-160)")
        \* density = keywordCount / wordCount * 100, compared without division
        Density(keywordCount, wordCount) ==
            Push(wordCount > 0 /\ 200 * keywordCount < wordCount,
                 "Keyword density low (" \o toFixed2(keywordCount, wordCount)
                     \o "%, recommend 1-1.5%)")
            \o Push(50 * keywordCount > wordCount,
                    "Keyword density high (" \o toFixed2(keywordCount, wordCount)
                        \o "%, may be over-optimized)")
        Keyword ==
            IF postData.keyword = "" THEN <<>>
            ELSE Density(Cardinality(LiteralAtCI(postData.content,
                                                 toLowerCase(postData.keyword))),
                         countWords(postData.content))
    IN  Result(MetaTitle(Len(postData.metaTitle))
                   \o DescriptionError(Len(postData.metaDescription)),
               DescriptionWarning(Len(postData.metaDescription))
                   \o Push(postData.ogTitle = "",
                           "OG title missing (will default to meta title)")
                   \o Push(postData.ogDescription = "",
                           "OG description missing (will default to meta description)")
                   \o Keyword)

\* !imageData || !imageData.url
NoImage(imageData) == imageData = Null \/ imageData.url = ""

\* the result for a missing image, were a missing image an error
MissingImageIsError ==
    [valid |-> FALSE, errors |-> <<"No featured image">>, warnings |-> <<>>]

\* the result of validateImage for a missing image: one warning
MissingImage ==
    [valid |-> TRUE, errors |-> <<>>,
     warnings |-> <<"No featured image - consider adding for better engagement">>]

\* the errors of validateImage for a response: the status, then the content
\* type; without a Content-Type header contentType.includes throws a
\* TypeError inside the try block
ImageResponseErrors(head) ==
    Push(head.status # 200, "Image URL returned status " \o ToString(head.status))
    \o (IF head.contentType = ""
        THEN <<"Image URL not accessible: Cannot read properties of undefined (reading 'includes')">>
        ELSE Push(~Includes(head.contentType, "image"),
                  "Image URL does not point to an image (" \o head.contentType \o ")"))

\* the errors of the request with a catch block that pushes nothing
ImageRequestErrorsSwallowed(head) ==
    IF head.kind = "error" THEN <<>> ELSE ImageResponseErrors(head)

\* the errors of the try/catch around axios.head: a rejected request is
\* caught and becomes one error
ImageRequestErrors(head) ==
    IF head.kind = "error"
    THEN <<"Image URL not accessible: " \o head.message>>
    ELSE ImageResponseErrors(head)

\* ContentValidator.validateImage.  head is the outcome of axios.head:
\* [kind |-> "response", status, contentType] ("" for no Content-Type header)
\* or [kind |-> "error", message] when the request is rejected.
validateImage(imageData, head) ==
    LET Result(errors, warnings) ==
            [valid |-> errors = <<>>, errors |-> errors, warnings |-> warnings]
        AltText(n) ==
            Push(n = 0, "Image alt text is missing - bad for SEO and accessibility")
            \o Push(n > 0 /\ n < 10, "Image alt text is very short - should be descriptive")
            \o Push(n > 125, "Image alt text is too long - keep under 125 characters")
    IN  IF NoImage(imageData)
        THEN MissingImage
        ELSE Result(ImageRequestErrors(head), AltText(Len(imageData.altText)))

\* how many of the extracted links validateLinks probes
maxLinksChecked == 5

\* links.slice(0, 5) left out: every link is probed
LinksCheckedAll(links) == links

\* links.slice(0, 5)
LinksChecked(links) == SubSeq(links, 1, Min({Len(links), maxLinksChecked}))

\* ContentValidator.validateLinks.  brokenAt holds the indices of the probed
\* links whose HEAD request is rejected.
validateLinks(content, brokenAt) ==
    LET Broken(checked) ==
            [k \in 1..Len(checked) |-> "Link may be broken: " \o checked[k]]
        Check(links) ==
            IF Len(links) = 0
            THEN <<"No external links found - consider adding 3-4 authoritative sources">>
            ELSE Push(Len(links) < 3,
                      "Only " \o ToString(Len(links))
                          \o " external link(s) - recommend 3-4 for credibility")
                 \o Without(Broken(LinksChecked(links)),
                            (1..maxLinksChecked) \ brokenAt, 1)
    IN  [warnings |-> Check(extractLinks(content))]

\* which of n probed links may be unreachable together in the model: none,
\* any one, or all of them
BrokenSets(n) == {S \in SUBSET (1..n) : Cardinality(S) <= 1 \/ S = 1..n}

\* the HEAD requests of one validatePost, in the order they are issued
HeadRequests(postData, imageData) ==
    (IF NoImage(imageData) THEN <<>> ELSE <<imageData.url>>)
        \o LinksChecked(extractLinks(postData.content))

\* what the link check adds to the errors, were its warnings errors
LinkWarningsAsErrors(linkValidation) == linkValidation.warnings

\* what the link check adds to the errors of validatePost: nothing, only
\* its warnings are pushed
LinkErrors(linkValidation) == <<>>

\* what a check adds to the errors of validatePost
ErrorsOf(check) == IF ~check.valid THEN check.errors ELSE <<>>

\* valid of a result that warnings make invalid too
ResultValidNoWarnings(errors, warnings) == Len(errors) = 0 /\ Len(warnings) = 0

\* valid: errors.length === 0
ResultValid(errors, warnings) == Len(errors) = 0

\* ContentValidator.validatePost
validatePost(postData, imageData, templateType, head, brokenAt, previous) ==
    LET Result(errors, warnings) ==
            [valid    |-> ResultValid(errors, warnings),
             errors   |-> errors,
             warnings |-> warnings,
             metrics  |->
                 [wordCount        |-> countWords(postData.content),
                  paragraphCount   |-> countParagraphs(postData.content),
                  headingCount     |-> countHeadings(postData.content),
                  linkCount        |-> countLinks(postData.content),
                  firstPersonUsage |-> countFirstPersonUsage(postData.content),
                  regionalMentions |-> countRegionalMentions(postData.content)]]
        Checks(titleValidation, contentValidation, voiceValidation, contextValidation,
               seoValidation, imageValidation, linkValidation, conclusionValidation) ==
            Result(ErrorsOf(titleValidation) \o ErrorsOf(contentValidation)
                       \o ErrorsOf(voiceValidation) \o ErrorsOf(contextValidation)
                       \o ErrorsOf(seoValidation) \o ErrorsOf(imageValidation)
                       \o LinkErrors(linkValidation) \o ErrorsOf(conclusionValidation),
                   titleValidation.warnings \o contentValidation.warnings
                       \o voiceValidation.warnings \o contextValidation.warnings
                       \o seoValidation.warnings \o imageValidation.warnings
                       \o linkValidation.warnings \o conclusionValidation.warnings)
    IN  Checks(validateTitle(postData.title),
               validateContent(postData.content, templateType),
               validateVoice(postData.content, previous),
               validateRegionalContext(postData.content),
               validateSEO(postData),
               validateImage(imageData, head),
               validateLinks(postData.content, brokenAt),
               validateConclusion(postData.content))
--------------------------------------------------------------------------
(* BlogGenerator.generateAndCreateBlog                                     *)

\* Object.keys(contentTemplates)
Templates ==
    {"Strategic Framework", "Case Study Analysis", "Vision & Outlook", "How-To / Playbook"}

\* c repeated n times
RECURSIVE Rep(_, _)
Rep(c, n) ==
    IF n <= 0 THEN ""
    ELSE IF n = 1 THEN c
    ELSE Rep(c, n \div 2) \o Rep(c, n - n \div 2)

\* a string of n characters that starts with prefix
Pad(prefix, n) == prefix \o Rep("x", n - Len(prefix))

\* the longest title validatePost is called with
MaxTitleLen == 62

PlainTitle(n) == Pad("Scaling revenue ", n)

Titles ==
    {PlainTitle(n) : n \in {29, 30} \cup (59..MaxTitleLen)}
        \cup {" " \o PlainTitle(n) \o " " : n \in 59..MaxTitleLen}
        \cup {"", "   ",
              "Five growth tips for teams...",
              "Growth methods for founders and their teams"}

GoodTitle == PlainTitle(45)

MetaDescriptions == {Pad("Practical guidance ", 155), Pad("Practical guidance ", 161)}

Keywords == {"", "growth", "c++"}

\* the parts the bodies are put together from; "~" is the filler
Opening(fillers) ==
    "<h2>Plan</h2><p>" \o Rep("~", fillers)
        \o " I think we see growth. I see APAC firms led in 2024.</p>"

Closing == "<p>In my view the plan wins.</p>"

\* how many fillers a body of the minimum length holds
MinFillers == 8

\* a body of fillers and of single words
Body(fillers, words) ==
    Opening(fillers) \o "<p> " \o Rep("w ", words) \o "</p>" \o Closing

\* the words of a body without fillers
BaseWords == countWords(Body(0, 0))

\* a body of exactly n words, for n >= BaseWords: as many fillers as fit, and
\* single words for the rest
ContentOfWords(n) ==
    LET Fill(fillers) == Body(fillers, n - countWords(Body(fillers, 0)))
    IN  Fill((n - BaseWords) \div FillerWords)

\* the bodies at the two ends of the band of word counts
BandContents ==
    {ContentOfWords(n) : n \in {minWordCount - 1, minWordCount,
                                maxWordCount, maxWordCount + 1}}

\* bodies whose last paragraph follows a heading, follows a short paragraph
\* after a heading, or holds a link
ConclusionContents ==
    {Opening(MinFillers) \o "<h3>Close</h3>" \o Closing,
     "<h2>Close</h2>" \o Closing,
     Opening(MinFillers) \o "<h2>Close</h2><p>One more.</p>" \o Closing,
     Opening(MinFillers) \o "<p>In my view see <a href=\"https://a.io\">a</a>.</p>",
     Opening(MinFillers)
         \o "<p>In my view see <a class=\"x\" href=\"https://a.io\">a</a>.</p>"}

\* a paragraph with more links than validateLinks probes
ManyLinks ==
    "<p>See <a href=\"https://a.io\">a</a>, <a href=\"https://b.io\">b</a>, "
        \o "<a href=\"https://c.io\">c</a>, <a href=\"https://d.io\">d</a>, "
        \o "<a href=\"https://e.io\">e</a>, <a href=\"https://f.io\">f</a>, "
        \o "<a href=\"https://a.io\">g</a>.</p>"

Contents ==
    {"",
     Opening(1) \o Closing,
     Opening(MinFillers) \o Closing,
     Opening(2 * MinFillers + 1) \o Closing,
     "<h2>Frequently Asked Questions</h2>" \o Opening(MinFillers) \o Closing,
     "<h3>FAQ</h3>" \o Opening(MinFillers) \o Closing,
     Opening(MinFillers) \o "<p>According to this article it holds.</p>" \o Closing,
     Opening(MinFillers) \o "<p>Try this article. Read this article.</p>" \o Closing,
     Opening(MinFillers) \o "<p>See <a href=\"https://a.io\">a</a>, "
         \o "<a href=\"https://b.io\">b</a>.</p>" \o Closing,
     Opening(MinFillers) \o "<h2>Close</h2>" \o Closing}

\* AIContentGenerator.generateBlogPost: the fields the validator reads
BlogPost(title, content, metaDesc, keyword) ==
    [title           |-> title,
     content         |-> content,
     keyword         |-> keyword,
     metaTitle       |-> title,
     metaDescription |-> metaDesc,
     ogTitle         |-> title,
     ogDescription   |-> metaDesc]

GoodContent == Opening(MinFillers) \o Closing

GoodDescription == Pad("Practical guidance ", 155)

\* the posts validatePost is called with: every title, every body and every
\* metadata, each with the other fields of a post that passes
Posts ==
    {BlogPost(t, GoodContent, GoodDescription, "") : t \in Titles}
    \cup {BlogPost(GoodTitle, c, GoodDescription, "") :
              c \in Contents \cup BandContents \cup ConclusionContents
                       \cup {Opening(MinFillers) \o ManyLinks \o Closing}}
    \cup {BlogPost(GoodTitle, GoodContent, d, k) : d \in MetaDescriptions, k \in Keywords}

\* generateSEOTitle: at most 60 characters, cut with "..." when the keyword is
\* longer, and trimmed
GeneratedTitles ==
    {GoodTitle, PlainTitle(29), PlainTitle(60),
     PlainTitle(57) \o "..."}

\* generateVariedMetaDescription: at most 160 characters
GeneratedDescriptions == {GoodDescription, Pad("Practical guidance ", 120)}

\* AIContentGenerator.generateBlogPost: the title and the description are
\* built from the keyword, the content is the text the model returns
GeneratedPosts ==
    {BlogPost(t, GoodContent, GoodDescription, "growth") : t \in GeneratedTitles}
    \cup {BlogPost(GoodTitle, c, d, "growth") : c \in Contents, d \in GeneratedDescriptions}
    \cup {BlogPost(GoodTitle, GoodContent, GoodDescription, "c++")}

\* ImageGenerator.generateFeaturedImage: an uploaded image, or the fallback
ImageResults ==
    {[url |-> "https://ghost.example/content/images/a.png",
      altText |-> "Team planning a launch"],
     [url |-> "", altText |-> "Team planning a launch"]}

\* the imageData validatePost is called with: also null, and an object
\* without url and alt text
ImageInputs == ImageResults \cup {Null, [url |-> "", altText |-> ""]}

\* the outcomes of axios.head for the image URL
HeadOutcomes ==
    {[kind |-> "response", status |-> 200, contentType |-> "image/png"],
     [kind |-> "response", status |-> 200, contentType |-> "text/html"],
     [kind |-> "response", status |-> 204, contentType |-> ""],
     [kind |-> "error", message |-> "timeout of 5000ms exceeded"]}

NoRequest == [kind |-> "none"]

\* the step after validatePost: throw when the post is not valid
AfterValidationUnchecked(result) == "validated"

AfterValidation(result) == IF ~result.valid THEN "failed" ELSE "validated"

genVars == <<pc, template, blogPost, imageResult, validation, requests, ghostCalls,
             history, thrown, network, lastIndex, second>>

vars == <<doc, html, segThrows, throwsAt, convOut, children, pc, template, blogPost,
          imageResult, validation, requests, ghostCalls, history, thrown, network,
          lastIndex, second, file, histOp, calls, served, pending, batch, retry, img>>

--------------------------------------------------------------------------
(* TopicHistory                                                            *)

\* this.maxHistoryPerPersona
maxHistoryPerPersona == 50

Personas == {"Ava", "Ben"}

\* `${keyword}::${template}`
topicKey(keyword, templ) == keyword \o "::" \o templ

\* Array.includes
InSeq(seq, x) == \E k \in 1..Len(seq) : seq[k] = x

\* TopicHistory.isTopicUsed on the loaded history h
isTopicUsed(h, persona, keyword, templ) ==
    InSeq(h[persona], topicKey(keyword, templ))

\* recordTopic without the filter: the key is added in front of the others
Unshift(topics, key) == <<key>> \o topics

\* history[persona].filter(t => t !== topicKey), then unshift(topicKey)
MoveToFront(topics, key) ==
    LET Other(t) == t # key
    IN  <<key>> \o SelectSeq(topics, Other)

\* history[persona].slice(0, this.maxHistoryPerPersona) when it is longer
KeepLast(topics) ==
    IF Len(topics) > maxHistoryPerPersona
    THEN SubSeq(topics, 1, maxHistoryPerPersona)
    ELSE topics

\* TopicHistory.recordTopic: the history that is saved
recordTopic(h, persona, keyword, templ) ==
    [h EXCEPT ![persona] = KeepLast(MoveToFront(@, topicKey(keyword, templ)))]

\* the combinations of getAvailableTopic
Combinations(allKeywords, allTemplates) ==
    {[keyword |-> k, template |-> t] : k \in allKeywords, t \in allTemplates}

\* the filter of getAvailableTopic left out: every combination is available
AvailableAny(h, persona, allKeywords, allTemplates) ==
    Combinations(allKeywords, allTemplates)

\* the combinations whose key is not in the persona's history
Available(h, persona, allKeywords, allTemplates) ==
    {c \in Combinations(allKeywords, allTemplates) :
        ~isTopicUsed(h, persona, c.keyword, c.template)}

\* TopicHistory.getAvailableTopic: the topics it can return (Math.random)
\* and the history that is in the file afterwards
getAvailableTopic(h, persona, allKeywords, allTemplates) ==
    IF Available(h, persona, allKeywords, allTemplates) # {}
    THEN [topics |-> Available(h, persona, allKeywords, allTemplates),
          reset  |-> FALSE,
          saved  |-> h]
    ELSE [topics |-> Combinations(allKeywords, allTemplates),
          reset  |-> TRUE,
          saved  |-> [h EXCEPT ![persona] = <<>>]]

\* clearHistory(): the file is emptied and nothing is written after that
ClearedFile(h) == [p \in DOMAIN h |-> <<>>]

\* clearHistory(): writeJsonSync(historyFile, {}) and then
\* saveHistory(history) with the history that was loaded before
ClearAll(h) == h

\* TopicHistory.clearHistory: the history that is in the file afterwards;
\* persona is "" for the call without argument
clearHistory(h, persona) ==
    IF persona # "" THEN [h EXCEPT ![persona] = <<>>] ELSE ClearAll(h)

\* no persona has a topic in its history
AllEmpty(h) == \A p \in Personas : h[p] = <<>>

\* no topic is selected
NoTopic == [keyword |-> "", template |-> ""]

\* no TopicHistory method was called
NoCall == [op |-> "none", persona |-> "", key |-> "", used |-> FALSE, reset |-> FALSE]

HistIdle ==
    /\ file = [p \in Personas |-> <<>>]
    /\ histOp = NoCall
    /\ calls = 0
    /\ served = [p \in Personas |-> <<>>]
    /\ pending = [p \in Personas |-> NoTopic]

\* generateBatch was not called
NoBatchJob ==
    [state |-> "idle", count |-> 0, autoSchedule |-> FALSE, publishDates |-> <<>>,
     i |-> 0, attempts |-> <<>>, results |-> <<>>, errors |-> <<>>, sleeps |-> <<>>]

\* retryApiCall was not called
NoRetryJob ==
    [state |-> "idle", attempt |-> 0, trace |-> <<>>, lastError |-> "", result |-> "",
     thrown |-> ""]

\* generateFeaturedImage was not called
NoImageJob ==
    [state |-> "idle", attempt |-> 0, upload |-> 0, style |-> "", selected |-> <<>>,
     recentStyles |-> <<>>, trace |-> <<>>, lastError |-> "",
     result |-> [provider |-> "", url |-> "", style |-> ""]]

JobIdle ==
    /\ batch = NoBatchJob
    /\ retry = NoRetryJob
    /\ img = NoImageJob

LibIdle == HistIdle /\ JobIdle

--------------------------------------------------------------------------
(* BlogGenerator.generateAndCreateBlog: the run                            *)

\* no run of generateAndCreateBlog
GenIdle ==
    /\ pc = "idle"
    /\ template = ""
    /\ blogPost = Null
    /\ imageResult = Null
    /\ validation = Null
    /\ requests = <<>>
    /\ ghostCalls = <<>>
    /\ history = <<>>
    /\ thrown = ""
    /\ network = Null
    /\ lastIndex = <<>>
    /\ second = Null

\* no call of htmlToLexical
ConvIdle ==
    /\ doc = <<>>
    /\ html = ""
    /\ segThrows = FALSE
    /\ throwsAt = {}
    /\ convOut = "idle"
    /\ children = <<>>

Init ==
    /\ ConvIdle
    /\ LibIdle
    /\ pc = "start"
    /\ template = ""
    /\ blogPost = Null
    /\ imageResult = Null
    /\ validation = Null
    /\ requests = <<>>
    /\ ghostCalls = <<>>
    /\ history = <<>>
    /\ thrown = ""
    /\ network = Null
    /\ lastIndex = <<>>
    /\ second = Null

\* the keywords of the runs
RunKeywords == {"growth", "c++"}

\* the persona of the run: the one a topic is selected for
RunPersona == CHOOSE p \in Personas : pending[p] # NoTopic

\* the history entries of a run that went on although createDraft rejected
HistoryAfterAny(outcome, entries, entry) == Append(entries, entry)

\* recordTopic and recordTitle stand after the await of the Ghost call: they
\* are reached when the post was created, and skipped when the call rejects
HistoryAfter(outcome, entries, entry) ==
    IF outcome = "created" THEN Append(entries, entry) ELSE entries

\* persona and topic selection (selectTopic); an unknown persona name throws
SelectTopic ==
    /\ pc = "start"
    /\ \/ \E p \in Personas :
              LET r == getAvailableTopic(file, p, RunKeywords, Templates)
              IN  \E c \in r.topics :
                      /\ template' = c.template
                      /\ pending' = [pending EXCEPT ![p] = c]
                      /\ file' = r.saved
                      /\ pc' = "topic"
                      /\ thrown' = thrown
       \/ /\ pc' = "failed"
          /\ thrown' = "Persona not found"
          /\ UNCHANGED <<template, pending, file>>
    /\ UNCHANGED <<blogPost, imageResult, validation, requests, ghostCalls, history>>
    /\ UNCHANGED <<network, lastIndex, second>>
    /\ UNCHANGED <<histOp, calls, served>>
    /\ UNCHANGED jobVars
    /\ UNCHANGED convVars

\* await aiGenerator.generateBlogPost: a post, or the call rejects
GenerateContent ==
    /\ pc = "topic"
    /\ \/ \E post \in {g \in GeneratedPosts : g.keyword = pending[RunPersona].keyword} :
              /\ blogPost' = post
              /\ pc' = "generated"
              /\ thrown' = thrown
       \/ /\ pc' = "failed"
          /\ thrown' = "Content generation failed"
          /\ blogPost' = blogPost
    /\ UNCHANGED <<template, imageResult, validation, requests, ghostCalls, history>>
    /\ UNCHANGED <<network, lastIndex, second>>
    /\ UNCHANGED convVars
    /\ UNCHANGED libVars

\* await imageGenerator.generateFeaturedImage: it never rejects
GenerateImage ==
    /\ pc = "generated"
    /\ imageResult' \in ImageResults
    /\ pc' = "imaged"
    /\ UNCHANGED <<template, blogPost, validation, requests, ghostCalls, history, thrown>>
    /\ UNCHANGED <<network, lastIndex, second>>
    /\ UNCHANGED convVars
    /\ UNCHANGED libVars

\* await validator.validatePost and the check of validation.valid; an error
\* thrown by validatePost leaves through the catch of the run
ValidatePost ==
    /\ pc = "imaged"
    /\ IF validatePostThrows(blogPost)
       THEN /\ pc' = "failed"
            /\ thrown' = RegExpError
            /\ UNCHANGED <<validation, requests, network>>
       ELSE /\ \E head \in (IF NoImage(imageResult) THEN {NoRequest} ELSE HeadOutcomes),
                  brokenAt \in BrokenSets(Len(LinksChecked(extractLinks(blogPost.content)))) :
                   /\ network' = [head |-> head, brokenAt |-> brokenAt]
                   /\ validation' = validatePost(blogPost, imageResult, template,
                                                 head, brokenAt, lastIndex)
            /\ requests' = HeadRequests(blogPost, imageResult)
            /\ pc' = AfterValidation(validation')
            /\ thrown' = IF pc' = "failed"
                         THEN "Content validation failed - see errors above" ELSE thrown
    /\ lastIndex' = PhraseIndexes(blogPost.content, lastIndex)
    /\ UNCHANGED <<template, blogPost, imageResult, ghostCalls, history, second>>
    /\ UNCHANGED convVars
    /\ UNCHANGED libVars

\* the SEO report, then ghostService.createScheduledPost (publishDate given)
\* or ghostService.createDraft is called
CreatePost ==
    /\ pc = "validated"
    /\ \E scheduled \in BOOLEAN :
           ghostCalls' = Append(ghostCalls,
                                [call  |-> IF scheduled THEN "createScheduledPost"
                                           ELSE "createDraft",
                                 title |-> blogPost.title])
    /\ pc' = "creating"
    /\ UNCHANGED <<template, blogPost, imageResult, validation, requests, history, thrown>>
    /\ UNCHANGED <<network, lastIndex, second>>
    /\ UNCHANGED convVars
    /\ UNCHANGED libVars

\* the post is created: topic and title go into the history
PostCreated ==
    /\ pc = "creating"
    /\ history' = HistoryAfter("created", history,
                               [persona  |-> RunPersona,
                                keyword  |-> pending[RunPersona].keyword,
                                template |-> template,
                                title    |-> blogPost.title])
    /\ file' = IF history' = history THEN file
               ELSE recordTopic(file, RunPersona, pending[RunPersona].keyword, template)
    /\ pc' = "done"
    /\ UNCHANGED <<template, blogPost, imageResult, validation, requests, ghostCalls, thrown>>
    /\ UNCHANGED <<network, lastIndex, second>>
    /\ UNCHANGED <<histOp, calls, served, pending>>
    /\ UNCHANGED jobVars
    /\ UNCHANGED convVars

\* the Ghost API call rejects
PostFailed ==
    /\ pc = "creating"
    /\ pc' = "failed"
    /\ thrown' = "Ghost API error"
    /\ history' = HistoryAfter("rejected", history,
                               [persona  |-> RunPersona,
                                keyword  |-> pending[RunPersona].keyword,
                                template |-> template,
                                title    |-> blogPost.title])
    /\ file' = IF history' = history THEN file
               ELSE recordTopic(file, RunPersona, pending[RunPersona].keyword, template)
    /\ UNCHANGED <<template, blogPost, imageResult, validation, requests, ghostCalls>>
    /\ UNCHANGED <<network, lastIndex, second>>
    /\ UNCHANGED <<histOp, calls, served, pending>>
    /\ UNCHANGED jobVars
    /\ UNCHANGED convVars

Next ==
    \/ SelectTopic
    \/ GenerateContent
    \/ GenerateImage
    \/ ValidatePost
    \/ CreatePost
    \/ PostCreated
    \/ PostFailed

Spec == Init /\ [][Next]_vars
--------------------------------------------------------------------------
(* ContentValidator.validatePost, called on its own                        *)

\* the templates validatePost is called with: it reads templateType only to
\* compare it with 'How-To / Playbook'
ValidatorTemplates == {"Strategic Framework", "How-To / Playbook"}

InitVal ==
    /\ ConvIdle
    /\ LibIdle
    /\ pc = "call"
    /\ template \in ValidatorTemplates
    /\ blogPost \in Posts
    /\ imageResult \in ImageInputs
    /\ validation = Null
    /\ requests = <<>>
    /\ ghostCalls = <<>>
    /\ history = <<>>
    /\ thrown = ""
    /\ network = Null
    /\ lastIndex = <<>>
    /\ second = Null

\* one call validatePost(postData, imageData, templateType)
CallValidatePost ==
    /\ pc = "call"
    /\ IF validatePostThrows(blogPost)
       THEN /\ pc' = "threw"
            /\ thrown' = RegExpError
            /\ UNCHANGED <<validation, requests, network>>
       ELSE /\ \E head \in (IF NoImage(imageResult) THEN {NoRequest} ELSE HeadOutcomes),
                  brokenAt \in BrokenSets(Len(LinksChecked(extractLinks(blogPost.content)))) :
                   /\ network' = [head |-> head, brokenAt |-> brokenAt]
                   /\ validation' = validatePost(blogPost, imageResult, template,
                                                 head, brokenAt, lastIndex)
            /\ requests' = HeadRequests(blogPost, imageResult)
            /\ pc' = "returned"
            /\ thrown' = thrown
    /\ lastIndex' = PhraseIndexes(blogPost.content, lastIndex)
    /\ UNCHANGED <<template, blogPost, imageResult, ghostCalls, history, second>>
    /\ UNCHANGED convVars
    /\ UNCHANGED libVars

\* a second call on the same validator, with the same input and the same
\* outcomes of the HEAD requests
CallValidatePostAgain ==
    /\ pc = "returned"
    /\ second' = validatePost(blogPost, imageResult, template,
                              network.head, network.brokenAt, lastIndex)
    /\ lastIndex' = PhraseIndexes(blogPost.content, lastIndex)
    /\ pc' = "repeated"
    /\ UNCHANGED <<template, blogPost, imageResult, validation, requests, ghostCalls,
                   history, thrown, network>>
    /\ UNCHANGED convVars
    /\ UNCHANGED libVars

NextVal ==
    \/ CallValidatePost
    \/ CallValidatePostAgain

SpecVal == InitVal /\ [][NextVal]_vars
--------------------------------------------------------------------------
(* Inputs of the converter                                                 *)

\* how many block segments an input document has at most
MaxBlocks == 2

SegTags == {"h1", "p"}

SegBodies == {"", "w", "a <em>b</em>", "x<strong>y</strong>"}

Segments == [tag : SegTags, body : SegBodies, closed : BOOLEAN]

Docs == UNION {[1..n -> Segments] : n \in 0..MaxBlocks}

\* the HTML text of one segment; an unclosed one has no end tag
RenderSeg(seg) ==
    "<" \o seg.tag \o ">" \o seg.body
        \o (IF seg.closed THEN "</" \o seg.tag \o ">" ELSE "")

RECURSIVE Render(_)
Render(d) == IF d = <<>> THEN "" ELSE RenderSeg(Head(d)) \o Render(Tail(d))

InitConv ==
    /\ doc \in Docs
    /\ html = Render(doc)
    /\ segThrows \in BOOLEAN
    /\ throwsAt \in SUBSET (1..Len(parseHTMLBlocks(html)))
    /\ convOut = "input"
    /\ children = <<>>
    /\ GenIdle
    /\ LibIdle

\* one call htmlToLexical(html)
HtmlToLexical ==
    /\ convOut = "input"
    /\ LET r == htmlToLexical(html, segThrows, throwsAt)
       IN  /\ convOut' = IF r.threw THEN "threw" ELSE "returned"
           /\ children' = r.children
    /\ UNCHANGED <<doc, html, segThrows, throwsAt>>
    /\ UNCHANGED genVars
    /\ UNCHANGED libVars

NextConv == HtmlToLexical

SpecConv == InitConv /\ [][NextConv]_vars

\* Inputs with inline markup, entities, lists and quotes: one block, alone
\* or after a first H1
InlineExample ==
    "Hello <strong>world</strong>, visit <a href=\"https://x.com\">us</a>."

\* bodies of text, <strong> spans and links only, without entities
InlineBodies ==
    {InlineExample,
     "word<strong>x</strong>",
     "<strong>a</strong><a href='https://y.io'>b</a>c"}

EntityBodies ==
    {"a &amp; b", "<strong>a &lt; b</strong>", "x<br>y",
     "&quot;q&quot; <strong>r&#39;s</strong>"}

ListBodies ==
    {"<li>w</li>", "<li><strong> </strong></li>",
     "<li>w</li><li><strong></strong></li>", "<li> </li>"}

BlankBodies == {" ", "<strong> </strong>", "&nbsp;"}

RichTags == {"p", "h2", "ul", "blockquote"}

RichSegments ==
    [tag    : RichTags,
     body   : InlineBodies \cup EntityBodies \cup ListBodies \cup BlankBodies,
     closed : {TRUE}]

TitleSegment == [tag |-> "h1", body |-> "T", closed |-> TRUE]

RichDocs == {<<seg>> : seg \in RichSegments} \cup {<<TitleSegment, seg>> : seg \in RichSegments}

InitRich ==
    /\ doc \in RichDocs
    /\ html = Render(doc)
    /\ segThrows \in BOOLEAN
    /\ throwsAt \in SUBSET (1..Len(parseHTMLBlocks(html)))
    /\ convOut = "input"
    /\ children = <<>>
    /\ GenIdle
    /\ LibIdle

SpecRich == InitRich /\ [][NextConv]_vars
--------------------------------------------------------------------------
(* TopicHistory, its methods called in any order                           *)

\* how many calls a behaviour holds
MaxCalls == 2

HistKeywords == {"ai", "seo"}

HistTemplates == {"Case Study Analysis", "How-To / Playbook"}

\* a history of n topics recorded one after the other, the newest first
OldTopics(n) == [k \in 1..n |-> topicKey("topic " \o ToString(n + 1 - k), "Vision & Outlook")]

\* the histories a behaviour starts with: none, and one and none below the
\* most the file keeps
InitialHistories ==
    {<<>>, OldTopics(maxHistoryPerPersona - 1), OldTopics(maxHistoryPerPersona)}

\* the keywords recordTopic is called with: also one of a topic in the history
RecordKeywords == HistKeywords \cup {"topic 1"}

RecordTemplates == HistTemplates \cup {"Vision & Outlook"}

InitHist ==
    /\ ConvIdle
    /\ GenIdle
    /\ JobIdle
    /\ file \in [Personas -> InitialHistories]
    /\ histOp = NoCall
    /\ calls = 0
    /\ served = [p \in Personas |-> <<>>]
    /\ pending = [p \in Personas |-> NoTopic]

\* topicHistory.recordTopic(persona, keyword, template)
RecordTopic ==
    /\ calls < MaxCalls
    /\ \E p \in Personas, k \in RecordKeywords, t \in RecordTemplates :
           /\ file' = recordTopic(file, p, k, t)
           /\ histOp' = [op |-> "recordTopic", persona |-> p, key |-> topicKey(k, t),
                         used |-> isTopicUsed(file, p, k, t), reset |-> FALSE]
    /\ calls' = calls + 1
    /\ UNCHANGED <<served, pending>>
    /\ UNCHANGED convVars
    /\ UNCHANGED genVars
    /\ UNCHANGED jobVars

\* topicHistory.getAvailableTopic(persona, allKeywords, allTemplates)
GetAvailableTopic ==
    /\ calls < MaxCalls
    /\ \E p \in Personas :
           LET r == getAvailableTopic(file, p, HistKeywords, HistTemplates)
           IN  /\ file' = r.saved
               /\ \E c \in r.topics :
                      histOp' = [op |-> "getAvailableTopic", persona |-> p,
                                 key |-> topicKey(c.keyword, c.template),
                                 used |-> isTopicUsed(file, p, c.keyword, c.template),
                                 reset |-> r.reset]
    /\ calls' = calls + 1
    /\ UNCHANGED <<served, pending>>
    /\ UNCHANGED convVars
    /\ UNCHANGED genVars
    /\ UNCHANGED jobVars

\* topicHistory.clearHistory(persona), and clearHistory() as persona ""
ClearHistory ==
    /\ calls < MaxCalls
    /\ \E p \in Personas \cup {""} :
           /\ file' = clearHistory(file, p)
           /\ histOp' = [op |-> "clearHistory", persona |-> p, key |-> "",
                         used |-> FALSE, reset |-> FALSE]
    /\ calls' = calls + 1
    /\ UNCHANGED <<served, pending>>
    /\ UNCHANGED convVars
    /\ UNCHANGED genVars
    /\ UNCHANGED jobVars

NextHist ==
    \/ RecordTopic
    \/ GetAvailableTopic
    \/ ClearHistory

SpecHist == InitHist /\ [][NextHist]_vars
--------------------------------------------------------------------------
(* TopicHistory as generateAndCreateBlog uses it: a topic is selected, and *)
(* recorded when the post was created                                      *)

CycleHistories ==
    {<<>>,
     <<topicKey("ai", "Case Study Analysis")>>,
     OldTopics(maxHistoryPerPersona - 1)}

InitCycle ==
    /\ ConvIdle
    /\ GenIdle
    /\ JobIdle
    /\ file \in [Personas -> CycleHistories]
    /\ histOp = NoCall
    /\ calls = 0
    /\ served = [p \in Personas |-> <<>>]
    /\ pending = [p \in Personas |-> NoTopic]

\* BlogGenerator.selectTopic(personaName)
SelectTopicFor ==
    /\ \E p \in Personas :
           /\ pending[p] = NoTopic
           /\ LET r == getAvailableTopic(file, p, HistKeywords, HistTemplates)
              IN  /\ file' = r.saved
                  /\ \E c \in r.topics :
                         /\ histOp' = [op |-> "getAvailableTopic", persona |-> p,
                                       key |-> topicKey(c.keyword, c.template),
                                       used |-> isTopicUsed(file, p, c.keyword, c.template),
                                       reset |-> r.reset]
                         /\ pending' = [pending EXCEPT ![p] = c]
                         /\ served' =
                                [served EXCEPT
                                    ![p] = IF r.reset
                                           THEN <<topicKey(c.keyword, c.template)>>
                                           ELSE Append(@, topicKey(c.keyword, c.template))]
    /\ UNCHANGED calls
    /\ UNCHANGED convVars
    /\ UNCHANGED genVars
    /\ UNCHANGED jobVars

\* topicHistory.recordTopic(personaName, keyword, template) of the run
RecordSelected ==
    /\ \E p \in Personas :
           /\ pending[p] # NoTopic
           /\ file' = recordTopic(file, p, pending[p].keyword, pending[p].template)
           /\ histOp' = [op |-> "recordTopic", persona |-> p,
                         key |-> topicKey(pending[p].keyword, pending[p].template),
                         used |-> isTopicUsed(file, p, pending[p].keyword,
                                              pending[p].template),
                         reset |-> FALSE]
           /\ pending' = [pending EXCEPT ![p] = NoTopic]
    /\ UNCHANGED <<calls, served>>
    /\ UNCHANGED convVars
    /\ UNCHANGED genVars
    /\ UNCHANGED jobVars

NextCycle ==
    \/ SelectTopicFor
    \/ RecordSelected

SpecCycle == InitCycle /\ [][NextCycle]_vars
--------------------------------------------------------------------------
(* BlogGenerator.generateBatch                                             *)

\* the greatest count generateBatch is called with
MaxCount == 3

\* a date is the number of its day, day % 7 its day of the week (0 = Sunday);
\* every date of a schedule is at 9:00, a start date is before 9:00
scheduleDays == {1, 3, 5}

\* publishDate: null
NoDate == 0

StartDates == 1..7

RECURSIVE NextScheduledDay(_, _)
NextScheduledDay(current, daysChecked) ==
    IF daysChecked < 7 /\ (current % 7) \notin scheduleDays
    THEN NextScheduledDay(current + 1, daysChecked + 1)
    ELSE current

getNextPublishDate(fromDate) == NextScheduledDay(fromDate, 0)

RECURSIVE generateSchedule(_, _)
generateSchedule(count, startDate) ==
    IF count <= 0 THEN <<>>
    ELSE LET publishDate == getNextPublishDate(startDate)
         IN  <<publishDate>> \o generateSchedule(count - 1, publishDate + 1)

\* how generateAndCreateBlog ends: the post is created, or the run throws
RunErrors == {"Content generation failed", "Content validation failed", "Ghost API error"}

RunOutcomes == {"created"} \cup RunErrors

\* the pause after a created post that is not the last one
sleepBetweenPosts == 10000

InitBatch ==
    /\ ConvIdle
    /\ GenIdle
    /\ HistIdle
    /\ retry = NoRetryJob
    /\ img = NoImageJob
    /\ \E count \in 0..MaxCount, autoSchedule \in BOOLEAN, startDate \in StartDates :
           batch = [state |-> "running", count |-> count, autoSchedule |-> autoSchedule,
                    publishDates |-> IF autoSchedule
                                     THEN generateSchedule(count, startDate)
                                     ELSE <<>>,
                    i |-> 0, attempts |-> <<>>, results |-> <<>>, errors |-> <<>>,
                    sleeps |-> <<>>]

\* the try block: the post is created and pushed to results
AfterSuccess(b, publishDate) ==
    [b EXCEPT !.results = Append(@, [index |-> b.i + 1, publishDate |-> publishDate]),
              !.sleeps = IF b.i < b.count - 1 THEN Append(@, sleepBetweenPosts) ELSE @,
              !.i = @ + 1]

\* a catch around the whole loop: the first failure ends the batch
AfterFailureStop(b, error) ==
    [b EXCEPT !.errors = Append(@, [index |-> b.i + 1, error |-> error]),
              !.state = "returned"]

\* the catch block inside the loop: the error is pushed and the loop goes on
AfterFailure(b, error) ==
    [b EXCEPT !.errors = Append(@, [index |-> b.i + 1, error |-> error]),
              !.i = @ + 1]

\* one iteration of the loop of generateBatch
BatchPost ==
    /\ batch.state = "running"
    /\ batch.i < batch.count
    /\ \E outcome \in RunOutcomes :
           LET publishDate == IF batch.autoSchedule
                              THEN batch.publishDates[batch.i + 1]
                              ELSE NoDate
               called == [batch EXCEPT !.attempts =
                              Append(@, [index |-> batch.i + 1,
                                         publishDate |-> publishDate,
                                         outcome |-> outcome])]
           IN  batch' = IF outcome = "created"
                        THEN AfterSuccess(called, publishDate)
                        ELSE AfterFailure(called, outcome)
    /\ UNCHANGED <<retry, img>>
    /\ UNCHANGED convVars
    /\ UNCHANGED genVars
    /\ UNCHANGED histVars

\* the loop is over: return { results, errors }
BatchReturn ==
    /\ batch.state = "running"
    /\ batch.i >= batch.count
    /\ batch' = [batch EXCEPT !.state = "returned"]
    /\ UNCHANGED <<retry, img>>
    /\ UNCHANGED convVars
    /\ UNCHANGED genVars
    /\ UNCHANGED histVars

NextBatch ==
    \/ BatchPost
    \/ BatchReturn

SpecBatch == InitBatch /\ [][NextBatch]_vars
--------------------------------------------------------------------------
(* AIContentGenerator.retryApiCall                                         *)

maxRetries == 3

retryDelay == 5000

\* what apiFunction resolves with and what it rejects with
ApiResults == {"content", "title"}

ApiErrors == {"timeout", "rate limit", "overloaded", "network"}

\* an entry of the trace: a call of apiFunction or a sleep
ApiCall(attempt, ok, outcome) ==
    [kind |-> "call", attempt |-> attempt, ok |-> ok, outcome |-> outcome, delay |-> 0]

Sleep(attempt, delay) ==
    [kind |-> "sleep", attempt |-> attempt, ok |-> FALSE, outcome |-> "", delay |-> delay]

InitRetry ==
    /\ ConvIdle
    /\ GenIdle
    /\ HistIdle
    /\ batch = NoBatchJob
    /\ img = NoImageJob
    /\ retry = [state |-> "calling", attempt |-> 1, trace |-> <<>>, lastError |-> "",
                result |-> "", thrown |-> ""]

\* the loop sleeps after every failed attempt
ShouldSleepAlways(attempt) == TRUE

\* if (attempt < this.maxRetries)
ShouldSleep(attempt) == attempt < maxRetries

\* return await apiFunction(): the first attempt that resolves ends the loop
ApiResolves ==
    /\ retry.state = "calling"
    /\ retry.attempt <= maxRetries
    /\ \E value \in ApiResults :
           retry' = [retry EXCEPT !.trace = Append(@, ApiCall(retry.attempt, TRUE, value)),
                                  !.result = value,
                                  !.state = "returned"]
    /\ UNCHANGED <<batch, img>>
    /\ UNCHANGED convVars
    /\ UNCHANGED genVars
    /\ UNCHANGED histVars

\* the catch block: lastError = error, then the sleep or the next attempt
ApiRejects ==
    /\ retry.state = "calling"
    /\ retry.attempt <= maxRetries
    /\ \E error \in ApiErrors :
           retry' = [retry EXCEPT !.trace = Append(@, ApiCall(retry.attempt, FALSE, error)),
                                  !.lastError = error,
                                  !.state = IF ShouldSleep(retry.attempt)
                                            THEN "sleeping" ELSE "calling",
                                  !.attempt = IF ShouldSleep(retry.attempt)
                                              THEN @ ELSE @ + 1]
    /\ UNCHANGED <<batch, img>>
    /\ UNCHANGED convVars
    /\ UNCHANGED genVars
    /\ UNCHANGED histVars

\* await this.sleep(this.retryDelay * attempt), then attempt++
RetrySleep ==
    /\ retry.state = "sleeping"
    /\ retry' = [retry EXCEPT !.trace = Append(@, Sleep(retry.attempt,
                                                        retryDelay * retry.attempt)),
                              !.state = "calling",
                              !.attempt = @ + 1]
    /\ UNCHANGED <<batch, img>>
    /\ UNCHANGED convVars
    /\ UNCHANGED genVars
    /\ UNCHANGED histVars

\* the loop is over: throw lastError
RetryThrow ==
    /\ retry.state = "calling"
    /\ retry.attempt > maxRetries
    /\ retry' = [retry EXCEPT !.thrown = retry.lastError, !.state = "threw"]
    /\ UNCHANGED <<batch, img>>
    /\ UNCHANGED convVars
    /\ UNCHANGED genVars
    /\ UNCHANGED histVars

NextRetry ==
    \/ ApiResolves
    \/ ApiRejects
    \/ RetrySleep
    \/ RetryThrow

SpecRetry == InitRetry /\ [][NextRetry]_vars

\* every awaited promise settles: the API call resolves or rejects and the
\* timer of sleep fires
SpecRetryFair == SpecRetry /\ WF_vars(NextRetry)
--------------------------------------------------------------------------
(* ImageGenerator.generateFeaturedImage, with retries                      *)

imageMaxRetries == 3

imageRetryDelay == 5000

\* recordUsedStyle keeps the last five styles
recentStylesKept == 5

\* the names of getAllVisualStyles
visualStyles ==
    <<"geometric", "particle-field", "fluid-dynamics", "wireframe", "gradient-waves",
      "crystalline", "data-viz", "light-rays", "topographic", "minimal-shapes">>

\* selectUnusedStyle: the styles it may return and the history it leaves
selectUnusedStyle(recentStyles) ==
    LET Unused(s) == ~InSeq(recentStyles, s)
        availableStyles == SelectSeq(visualStyles, Unused)
    IN  IF Len(availableStyles) > 0
        THEN [styles |-> {availableStyles[k] : k \in 1..Len(availableStyles)},
              saved |-> recentStyles]
        ELSE [styles |-> {visualStyles[k] : k \in 1..Len(visualStyles)},
              saved |-> <<>>]

\* recordUsedStyle: the style in front, without its older entry, five kept
recordUsedStyle(recentStyles, styleName) ==
    LET Other(s) == s # styleName
        updated == <<styleName>> \o SelectSeq(recentStyles, Other)
    IN  SubSeq(updated, 1, IF Len(updated) < recentStylesKept
                           THEN Len(updated) ELSE recentStylesKept)

\* image-style-history.json when generateFeaturedImage is called
StyleHistories ==
    {<<>>,
     <<"wireframe", "geometric">>,
     SubSeq(visualStyles, 1, recentStylesKept)}

\* what generateImageFromPrompt throws
GeminiErrors == {"No candidates returned by Gemini", "No image data in Gemini response"}

UploadError == "Ghost upload failed after 3 attempts"

\* what ghost.images.upload resolves with
UploadUrls == {"https://ghost.io/content/images/a.png"}

\* getFallback: no image, url null
getFallback ==
    [provider |-> "fallback", url |-> "", style |-> ""]

\* an entry of the trace of a call
ImageStep(kind, job, ok, delay) ==
    [kind |-> kind, attempt |-> job.attempt, upload |-> job.upload, ok |-> ok,
     delay |-> delay]

InitImage ==
    /\ ConvIdle
    /\ GenIdle
    /\ HistIdle
    /\ batch = NoBatchJob
    /\ retry = NoRetryJob
    /\ \E recent \in StyleHistories :
           LET picked == selectUnusedStyle(recent)
           IN  \E style \in picked.styles :
                   img = [state |-> "generating", attempt |-> 1, upload |-> 0,
                          style |-> style, selected |-> picked.saved,
                          recentStyles |-> picked.saved, trace |-> <<>>,
                          lastError |-> "",
                          result |-> [provider |-> "", url |-> "", style |-> ""]]

\* the catch block of the loop: lastError = error, then the sleep or the next attempt
AttemptFailed(job, error) ==
    [job EXCEPT !.lastError = error,
                !.upload = 0,
                !.state = IF job.attempt < imageMaxRetries THEN "sleeping" ELSE "generating",
                !.attempt = IF job.attempt < imageMaxRetries THEN @ ELSE @ + 1]

\* generateImageFromPrompt resolves with the path of the saved file
ImageGenerated ==
    /\ img.state = "generating"
    /\ img.attempt <= imageMaxRetries
    /\ img' = [img EXCEPT !.trace = Append(@, ImageStep("generate", img, TRUE, 0)),
                          !.state = "uploading",
                          !.upload = 1]
    /\ UNCHANGED <<batch, retry>>
    /\ UNCHANGED convVars
    /\ UNCHANGED genVars
    /\ UNCHANGED histVars

\* generateImageFromPrompt throws
ImageNotGenerated ==
    /\ img.state = "generating"
    /\ img.attempt <= imageMaxRetries
    /\ \E error \in GeminiErrors :
           img' = AttemptFailed(
                      [img EXCEPT !.trace = Append(@, ImageStep("generate", img, FALSE, 0))],
                      error)
    /\ UNCHANGED <<batch, retry>>
    /\ UNCHANGED convVars
    /\ UNCHANGED genVars
    /\ UNCHANGED histVars

\* ghost.images.upload resolves: the style is recorded and the descriptor returned
Uploaded ==
    /\ img.state = "uploading"
    /\ \E url \in UploadUrls :
           img' = [img EXCEPT !.trace = Append(@, ImageStep("upload", img, TRUE, 0)),
                              !.recentStyles = recordUsedStyle(img.recentStyles, img.style),
                              !.result = [provider |-> "gemini-abstract", url |-> url,
                                          style |-> img.style],
                              !.state = "returned"]
    /\ UNCHANGED <<batch, retry>>
    /\ UNCHANGED convVars
    /\ UNCHANGED genVars
    /\ UNCHANGED histVars

\* ghost.images.upload rejects: another upload after a sleep, or the attempt fails
NotUploaded ==
    /\ img.state = "uploading"
    /\ LET tried == [img EXCEPT !.trace = Append(@, ImageStep("upload", img, FALSE, 0))]
       IN  img' = IF img.upload < imageMaxRetries
                  THEN [tried EXCEPT !.state = "upload sleeping"]
                  ELSE AttemptFailed(tried, UploadError)
    /\ UNCHANGED <<batch, retry>>
    /\ UNCHANGED convVars
    /\ UNCHANGED genVars
    /\ UNCHANGED histVars

\* uploadToGhostWithRetry: await this.sleep(this.retryDelay * attempt)
UploadSleep ==
    /\ img.state = "upload sleeping"
    /\ img' = [img EXCEPT !.trace = Append(@, ImageStep("upload sleep", img, TRUE,
                                                        imageRetryDelay * img.upload)),
                          !.upload = @ + 1,
                          !.state = "uploading"]
    /\ UNCHANGED <<batch, retry>>
    /\ UNCHANGED convVars
    /\ UNCHANGED genVars
    /\ UNCHANGED histVars

\* generateFeaturedImage: await this.sleep(this.retryDelay * attempt)
AttemptSleep ==
    /\ img.state = "sleeping"
    /\ img' = [img EXCEPT !.trace = Append(@, ImageStep("sleep", img, TRUE,
                                                        imageRetryDelay * img.attempt)),
                          !.attempt = @ + 1,
                          !.state = "generating"]
    /\ UNCHANGED <<batch, retry>>
    /\ UNCHANGED convVars
    /\ UNCHANGED genVars
    /\ UNCHANGED histVars

\* the loop is over and the last error is thrown
ExhaustedThrows(job) == [job EXCEPT !.state = "threw"]

\* the loop is over: return this.getFallback(keyword, templateType)
Exhausted(job) == [job EXCEPT !.result = getFallback, !.state = "returned"]

ReturnFallback ==
    /\ img.state = "generating"
    /\ img.attempt > imageMaxRetries
    /\ img' = Exhausted(img)
    /\ UNCHANGED <<batch, retry>>
    /\ UNCHANGED convVars
    /\ UNCHANGED genVars
    /\ UNCHANGED histVars

NextImage ==
    \/ ImageGenerated
    \/ ImageNotGenerated
    \/ Uploaded
    \/ NotUploaded
    \/ UploadSleep
    \/ AttemptSleep
    \/ ReturnFallback

SpecImage == InitImage /\ [][NextImage]_vars
--------------------------------------------------------------------------
(* Claims about the validator and the orchestrator                         *)

Validated == validation # Null

\* validatePost reported an error that starts with the given text
HasError(text) ==
    \E k \in 1..Len(validation.errors) : MatchAt(validation.errors[k], 1, text)

\* C1: the result of validatePost satisfies valid == (errors is empty),
\* whatever warnings it holds.
C1_ValidIffNoErrors ==
    Validated => (validation.valid <=> validation.errors = <<>>)

C1_Witness ==
    /\ Validated
    /\ validation.valid
    /\ validation.errors = <<>>
    /\ Len(validation.warnings) > 0

\* C2: when validatePost returns valid = false, neither createDraft nor
\* createScheduledPost is called for the post: the run ends with the
\* validation error.
C2_NoPublishWhenInvalid ==
    (Validated /\ ~validation.valid) =>
        /\ ghostCalls = <<>>
        /\ pc = "failed"
        /\ thrown = "Content validation failed - see errors above"

C2_Witness ==
    /\ Validated
    /\ ~validation.valid
    /\ pc = "failed"
    /\ ghostCalls = <<>>

\* validateTitle reports the error 'Title too long'
TitleErrorReported(title) ==
    \E k \in 1..Len(validateTitle(title).errors) :
        MatchAt(validateTitle(title).errors[k], 1, "Title too long")

\* C8: 'Title too long' is reported exactly for the titles of 61 and more
\* characters, by validateTitle and in the errors of validatePost.
C8_TitleLength ==
    Validated =>
        /\ TitleErrorReported(blogPost.title) <=> Len(blogPost.title) >= 61
        /\ HasError("Title too long") <=> Len(blogPost.title) >= 61

\* C8, amended: 'Title too long' is reported exactly for the titles that hold
\* 61 and more characters once leading and trailing whitespace is removed, by
\* validateTitle and in the errors of validatePost.
C8_TrimmedTitleLength ==
    Validated =>
        /\ TitleErrorReported(blogPost.title) <=> Len(trim(blogPost.title)) >= 61
        /\ HasError("Title too long") <=> Len(trim(blogPost.title)) >= 61

C8_Witness ==
    /\ Validated
    /\ Len(blogPost.title) > 61
    /\ Len(trim(blogPost.title)) = 60
    /\ ~HasError("Title too long")

\* the words that make a sentence a citation
CitationLanguage == {"according to", "study", "research", "published in"}

\* the sentences of a text: its pieces between ".", "!" and "?"
Sentences(text) ==
    {SubSeq(text, a, Min({j \in a..Len(text) : IsSentenceEnd(At(text, j))}
                             \cup {Len(text) + 1}) - 1) :
        a \in {b \in 1..Len(text) :
                  /\ ~IsSentenceEnd(At(text, b))
                  /\ (b = 1 \/ IsSentenceEnd(At(text, b - 1)))}}

\* the sentences that hold "this article" and no citation language
OffendingSentences(content) ==
    {sentence \in Sentences(toLowerCase(extractTextContent(content))) :
        /\ Includes(sentence, "this article")
        /\ \A cite \in CitationLanguage : ~Includes(sentence, cite)}

\* the errors of the voice check about the phrase "this article"
PhraseErrors ==
    {k \in 1..Len(validation.errors) :
        MatchAt(validation.errors[k], 1, "Found prohibited phrase \"this article\"")}

\* C9: the voice check reports one error for every sentence that holds
\* "this article" without citation language, and none for a sentence that
\* holds it together with citation language.
C9_CitationExempt ==
    Validated =>
        Cardinality(PhraseErrors) = Cardinality(OffendingSentences(blogPost.content))

FaqError == "FAQ section required for How-To/Playbook template"

\* the HTML has an H2 heading "Frequently Asked Questions"
HasFaqH2(content) ==
    \E k \in 1..Len(extractHeadings(content)) :
        /\ extractHeadings(content)[k].level = "2"
        /\ toLowerCase(extractHeadings(content)[k].text) = "frequently asked questions"

\* C10: a How-To / Playbook post without an H2 "Frequently Asked Questions"
\* is invalid with the FAQ error; no other template gets the FAQ error.
C10_FaqH2Required ==
    Validated =>
        /\ (template = "How-To / Playbook" /\ ~HasFaqH2(blogPost.content)) =>
               (~validation.valid /\ HasError(FaqError))
        /\ template # "How-To / Playbook" => ~HasError(FaqError)

\* validatePost was called and has returned or thrown
Called == pc \notin {"start", "topic", "generated", "imaged", "call", "idle"}

\* the errors the eight checks find, in the order of the checks (the link
\* check has warnings only)
CheckErrors ==
    validateTitle(blogPost.title).errors
        \o validateContent(blogPost.content, template).errors
        \o validateVoice(blogPost.content, <<>>).errors
        \o validateRegionalContext(blogPost.content).errors
        \o validateSEO(blogPost).errors
        \o validateImage(imageResult, network.head).errors
        \o validateConclusion(blogPost.content).errors

\* C11: every call of validatePost runs all eight checks to completion and
\* returns a result whose errors hold the errors of every check.
C11_AllChecksRun ==
    Called => (Validated /\ validation.errors = CheckErrors)

Range(seq) == {seq[k] : k \in 1..Len(seq)}

\* the HEAD request for the image failed: rejected, a status other than 200,
\* or a Content-Type that is missing or names no image
ImageFailure ==
    /\ network # Null
    /\ \/ network.head.kind = "error"
       \/ /\ network.head.kind = "response"
          /\ \/ network.head.status # 200
             \/ ~Includes(network.head.contentType, "image")

\* the warnings for the links whose HEAD request was rejected
BrokenLinkWarnings ==
    {"Link may be broken: " \o LinksChecked(extractLinks(blogPost.content))[k] :
        k \in network.brokenAt}

\* the errors of the checks that issue no request
OfflineErrors ==
    validateTitle(blogPost.title).errors
        \o validateContent(blogPost.content, template).errors
        \o validateVoice(blogPost.content, <<>>).errors
        \o validateRegionalContext(blogPost.content).errors
        \o validateSEO(blogPost).errors
        \o validateConclusion(blogPost.content).errors

\* C12: no outcome of a HEAD request makes validatePost throw: a failed image
\* request is an entry of errors, a failed link request an entry of warnings
\* only, and the result holds the errors of all other checks.  validatePost
\* throws before any request only, for the keyword.
C12_RequestFailuresInline ==
    /\ (Called /\ ~Validated) => (network = Null /\ validatePostThrows(blogPost))
    /\ Validated =>
           /\ ImageFailure => HasError("Image URL")
           /\ BrokenLinkWarnings \subseteq Range(validation.warnings)
           /\ BrokenLinkWarnings \cap Range(validation.errors) = {}
           /\ Range(OfflineErrors) \subseteq Range(validation.errors)

C12_Witness ==
    /\ Validated
    /\ network.head.kind = "error"
    /\ network.brokenAt # {}
    /\ HasError("Image URL not accessible")

\* the warnings of the result that the image check adds
ImageWarnings ==
    {k \in 1..Len(validation.warnings) :
        \/ MatchAt(validation.warnings[k], 1, "No featured image")
        \/ MatchAt(validation.warnings[k], 1, "Image ")}

\* C13: a missing featured image (imageData null, or without url) adds exactly
\* one warning and no error and issues no request for the image: the errors
\* are those of the other checks, and without them the post is valid.
C13_MissingImageWarns ==
    (Validated /\ NoImage(imageResult)) =>
        /\ Cardinality(ImageWarnings) = 1
        /\ \E k \in ImageWarnings : MatchAt(validation.warnings[k], 1, "No featured image")
        /\ network.head = NoRequest
        /\ requests = LinksChecked(extractLinks(blogPost.content))
        /\ validation.errors = OfflineErrors
        /\ (OfflineErrors = <<>> => validation.valid)

C13_Witness ==
    /\ Validated
    /\ imageResult = Null
    /\ validation.valid
    /\ Cardinality(ImageWarnings) = 1

\* what the link check reports for the content and the rejected requests
LinkWarnings == Range(validateLinks(blogPost.content, network.brokenAt).warnings)

\* C14: the link check adds warnings only: whatever the number of external
\* links and whichever requests are rejected, its entries are in warnings and
\* not in errors, and valid depends on the other checks alone.
C14_LinksWarnOnly ==
    Validated =>
        /\ LinkWarnings \subseteq Range(validation.warnings)
        /\ LinkWarnings \cap Range(validation.errors) = {}
        /\ validation.valid <=> CheckErrors = <<>>

C14_Witness ==
    /\ Validated
    /\ validation.valid
    /\ network.brokenAt # {}
    /\ "Link may be broken: https://a.io" \in Range(validation.warnings)


\* C15: two calls of validatePost on the same ContentValidator instance, one
\* after the other, with the same post, image and template and the same network
\* responses, return the same errors, the same warnings in the same order and
\* the same metrics.
C15_Deterministic ==
    pc = "repeated" =>
        /\ second.errors = validation.errors
        /\ second.warnings = validation.warnings
        /\ second.metrics = validation.metrics

\* The first call found the prohibited phrase, so its regular expression had
\* matched when the second call ran, and the second call reports it again.
C15_Witness ==
    /\ pc = "repeated"
    /\ PhraseErrors # {}
    /\ \E k \in 1..Len(lastIndex) : lastIndex[k] # 0
    /\ \E k \in 1..Len(second.errors) :
           MatchAt(second.errors[k], 1, "Found prohibited phrase")


\* the entries of the result about the number of words
TooShortErrors ==
    {k \in 1..Len(validation.errors) :
        MatchAt(validation.errors[k], 1, "Content too short (")}

QuiteLongWarnings ==
    {k \in 1..Len(validation.warnings) :
        MatchAt(validation.warnings[k], 1, "Content quite long (")}

EmptyContentError == "Content is empty" \in Range(validation.errors)

\* C16 as stated: the content check reports an error when the word count is
\* below minWordCount and when it is above maxWordCount, and no word-count
\* error when it lies in the band, bounds included.
C16_WordBand ==
    Validated =>
        LET Band(wordCount) ==
                /\ (wordCount < minWordCount \/ wordCount > maxWordCount)
                       => (TooShortErrors # {} \/ EmptyContentError \/ ~validation.valid)
                /\ wordCount \in minWordCount..maxWordCount => TooShortErrors = {}
        IN  Band(countWords(blogPost.content))

\* C16, amended: below minWordCount the content check reports an error
\* ("Content too short", or "Content is empty" for a body that is empty after
\* trimming); above maxWordCount it reports the warning "Content quite long"
\* and no error about the number of words; in the band, bounds included, it
\* reports neither.
C16_WordBandSoft ==
    Validated =>
        LET Band(wordCount) ==
                /\ wordCount < minWordCount
                       => /\ Cardinality(TooShortErrors) = 1 \/ EmptyContentError
                          /\ QuiteLongWarnings = {}
                /\ wordCount > maxWordCount
                       => /\ TooShortErrors = {}
                          /\ ~EmptyContentError
                          /\ Cardinality(QuiteLongWarnings) = 1
                /\ wordCount \in minWordCount..maxWordCount
                       => /\ TooShortErrors = {}
                          /\ ~EmptyContentError
                          /\ QuiteLongWarnings = {}
        IN  Band(countWords(blogPost.content))

\* A body of maxWordCount + 1 words passes with the warning.
C16_Witness ==
    /\ Validated
    /\ countWords(blogPost.content) = maxWordCount + 1
    /\ validation.valid
    /\ QuiteLongWarnings # {}


\* the last paragraph block of the content, "" when it has none
LastParagraph(content) ==
    LET Last(paragraphs) ==
            IF paragraphs = <<>> THEN "" ELSE paragraphs[Len(paragraphs)]
    IN  Last(ScanParagraphs(content, 1))

\* the end tag of a heading of any level stands right before the last
\* paragraph block
HeadingBeforeConclusion(content) ==
    /\ LastParagraph(content) # ""
    /\ \E level \in HeadingLevels :
           MatchAtCI(content, LastIndexOf(content, LastParagraph(content)) - 5,
                     "</h" \o level \o ">")

\* C21: validateConclusion reports the error 'Conclusion should NOT have a
\* heading' when a heading of any level, at any offset, stands right before
\* the last paragraph block, and does not report it when another paragraph
\* block stands between the last heading and the last paragraph.
C21_ConclusionHeading ==
    Validated =>
        (HasError("Conclusion should NOT have a heading")
            <=> HeadingBeforeConclusion(blogPost.content))

\* an opening tag of an anchor, with any attributes
HasAnchorTag(s) ==
    \E i \in 1..Len(s) :
        /\ MatchAtCI(s, i, "<a")
        /\ i + 2 <= Len(s)
        /\ (IsSpace(At(s, i + 2)) \/ At(s, i + 2) = ">")

\* C22: validateConclusion reports the error 'Conclusion should NOT contain
\* hyperlinks' when the last paragraph block holds an anchor tag, whatever its
\* attributes and their order, and does not report it when it holds none.
C22_ConclusionAnchor ==
    Validated =>
        (HasError("Conclusion should NOT contain hyperlinks")
            <=> HasAnchorTag(LastParagraph(blogPost.content)))

\* C23: one validatePost issues at most one HEAD request for the image URL
\* and one for each of the first 5 extracted external links, in this order:
\* at most 6 requests, a failed request is not repeated and no link after the
\* fifth is probed.
C23_BoundedRequests ==
    Called =>
        LET Probed(links) ==
                /\ Len(requests) <= maxLinksChecked + 1
                /\ requests =
                       (IF NoImage(imageResult) THEN <<>> ELSE <<imageResult.url>>)
                           \o [k \in 1..Min({Len(links), maxLinksChecked}) |-> links[k]]
        IN  IF Validated THEN Probed(extractLinks(blogPost.content))
            ELSE requests = <<>>

\* seven links, an image, and the requests to the image and to each probed
\* link rejected
C23_Witness ==
    /\ Validated
    /\ Len(extractLinks(blogPost.content)) > maxLinksChecked
    /\ ~NoImage(imageResult)
    /\ network.brokenAt = 1..maxLinksChecked
    /\ Len(requests) = maxLinksChecked + 1


\* what a successful run records: its persona, keyword, template and title
RunEntry ==
    [persona  |-> RunPersona,
     keyword  |-> blogPost.keyword,
     template |-> template,
     title    |-> blogPost.title]

\* C26: recordTopic and recordTitle are called only after the Ghost post was
\* created: a run that fails at content generation, at validation or at the
\* creation of the post adds no topic and no title, and a successful run adds
\* exactly the persona, keyword and template and the title of the post it
\* created.
C26_RecordAfterCreate ==
    /\ pc # "done" =>
           /\ history = <<>>
           /\ AllEmpty(file)
    /\ pc = "done" =>
           /\ history = <<RunEntry>>
           /\ file = [p \in Personas |->
                         IF p = RunPersona
                         THEN <<topicKey(blogPost.keyword, template)>>
                         ELSE <<>>]
           /\ ghostCalls # <<>>
           /\ ghostCalls[Len(ghostCalls)].title = RunEntry.title

C26_Witness ==
    /\ pc = "done"
    /\ history = <<RunEntry>>
    /\ isTopicUsed(file, RunPersona, blogPost.keyword, template)
--------------------------------------------------------------------------
(* Claims about the converter                                              *)

NoFault == ~segThrows /\ throwsAt = {}

Returned == convOut = "returned"

\* C3: htmlToLexical never throws; a throwing block is skipped and the other
\* blocks are converted as if it were absent; when block segmentation throws
\* the children are exactly the one fallback paragraph.
C3_NeverThrows ==
    /\ convOut # "threw"
    /\ (Returned /\ segThrows) => children = <<FallbackParagraph>>
    /\ (Returned /\ ~segThrows) =>
           children = ConvertBlocks(Without(parseHTMLBlocks(html), throwsAt, 1),
                                    1, FALSE, {})

C3_Witness ==
    /\ Returned /\ ~segThrows
    /\ throwsAt # {}
    /\ Len(parseHTMLBlocks(html)) = 2
    /\ children # <<>>

\* C4: convert never returns an empty sequence of nodes.
C4_NeverEmpty == Returned => children # <<>>

AllClosed(d) == \A k \in 1..Len(d) : d[k].closed

SegHasText(seg) == extractTextContent(seg.body) # ""

H1Segs(d) == {k \in 1..Len(d) : d[k].tag = "h1"}

HeadingCount(nodes, tag) ==
    Cardinality({k \in 1..Len(nodes) :
                    nodes[k].type = "heading" /\ nodes[k].tag = tag})

\* C5: in a well-formed document exactly the first H1 is dropped, whatever its
\* text, and every later H1 (with text) becomes a level-1 heading node.
C5_FirstH1Dropped ==
    (Returned /\ NoFault /\ AllClosed(doc)) =>
        HeadingCount(children, "h1") =
            Cardinality({k \in H1Segs(doc) :
                            k # Min(H1Segs(doc)) /\ SegHasText(doc[k])})

Unclosed(d) == {k \in 1..Len(d) : ~d[k].closed}

\* C6: an unclosed block is skipped and every well-formed sibling is converted
\* into its own node: the result is that of the document without the unclosed
\* blocks.
C6_UnclosedSkipped ==
    (Returned /\ NoFault /\ Unclosed(doc) # {}) =>
        children = htmlToLexical(Render(Without(doc, Unclosed(doc), 1)),
                                 FALSE, {}).children

RECURSIVE InlineText(_)
InlineText(nodes) ==
    IF nodes = <<>> THEN "" ELSE Head(nodes).text \o InlineText(Tail(nodes))

\* the text of the inline nodes of heading and paragraph nodes, in order
RECURSIVE EmittedText(_)
EmittedText(nodes) ==
    IF nodes = <<>> THEN ""
    ELSE InlineText(Head(nodes).children) \o EmittedText(Tail(nodes))

\* a string without its whitespace
RECURSIVE Squash(_, _)
Squash(s, i) ==
    LET stop == {j \in i..Len(s) : IsSpace(At(s, j))}
    IN  IF stop = {} THEN SubSeq(s, i, Len(s))
        ELSE SubSeq(s, i, Min(stop) - 1) \o Squash(s, Min(stop) + 1)

FirstH1(d) == IF H1Segs(d) = {} THEN {} ELSE {Min(H1Segs(d))}

\* C7: for well-formed HTML with a non-empty paragraph the result is not empty
\* and the emitted inline text is the tag-stripped source text without the
\* first H1, up to whitespace.
C7_TextPreserved ==
    (/\ Returned /\ NoFault /\ AllClosed(doc)
     /\ \E k \in 1..Len(doc) : doc[k].tag = "p" /\ SegHasText(doc[k])) =>
        /\ children # <<>>
        /\ Squash(EmittedText(children), 1) =
               Squash(extractTextContent(Render(Without(doc, FirstH1(doc), 1))), 1)


\* the kind of an inline node: plain text, bold text or link
Kind(node) ==
    IF node.type = "link" THEN "link"
    ELSE IF node.format = 1 THEN "bold" ELSE "text"

Kinds(nodes) == [k \in 1..Len(nodes) |-> Kind(nodes[k])]

\* the document is one paragraph with the given body, alone or after the H1
ParagraphOf(body) ==
    /\ doc[Len(doc)] = [tag |-> "p", body |-> body, closed |-> TRUE]
    /\ Returned
    /\ NoFault

OccurrencesCI(s, pat) == Cardinality(LiteralAtCI(s, pat))

\* C17: the example converts to exactly one paragraph node (the H1 dropped)
\* whose inline children are a plain text node, the bold node "world", a plain
\* text node, the link node with url https://x.com and text "us", and the plain
\* text node "."; every paragraph of text, <strong> spans and links is one
\* paragraph node whose inline nodes follow the source order, one bold node
\* per <strong> span and one link node per link.
C17_InlineOrder ==
    /\ ParagraphOf(InlineExample) =>
           /\ Len(children) = 1
           /\ children[1].type = "paragraph"
           /\ Kinds(children[1].children) = <<"text", "bold", "text", "link", "text">>
           /\ children[1].children[2].text = "world"
           /\ children[1].children[4].url = "https://x.com"
           /\ children[1].children[4].text = "us"
           /\ children[1].children[5].text = "."
    /\ \A body \in InlineBodies :
           ParagraphOf(body) =>
               /\ Len(children) = 1
               /\ children[1].type = "paragraph"
               /\ Squash(InlineText(children[1].children), 1) = Squash(StripTags(body, 1), 1)
               /\ Cardinality({k \in 1..Len(children[1].children) :
                                  Kind(children[1].children[k]) = "bold"})
                      = OccurrencesCI(body, "<strong>")
               /\ Cardinality({k \in 1..Len(children[1].children) :
                                  Kind(children[1].children[k]) = "link"})
                      = OccurrencesCI(body, "<a ")

\* the example after its H1, converted
C17_Witness ==
    /\ ParagraphOf(InlineExample)
    /\ Len(doc) = 2
    /\ doc[1].tag = "h1"
    /\ Len(children[1].children) = 5


\* the block holds the given inner HTML, whatever its tag, and was converted
BlockOf(body) ==
    /\ doc[Len(doc)].body = body
    /\ Returned
    /\ NoFault

\* the sequences of inline nodes emitted for the block: of the heading or
\* paragraph node itself, of the paragraph of a quote, of the paragraphs of
\* the items of a list
InlineRuns(node) ==
    IF node.type \in {"heading", "paragraph"} THEN {node.children}
    ELSE IF node.type = "quote" THEN {node.children[1].children}
    ELSE {node.children[k].children[1].children : k \in 1..Len(node.children)}

\* C18: for a heading or paragraph block with the inner HTML
\* word<strong>x</strong> parseInlineContent emits two nodes, the plain text node "word" and the bold node "x": the text of
\* one node is not joined to its neighbour's.
C18_AdjacentSpans ==
    (BlockOf("word<strong>x</strong>") /\ doc[Len(doc)].tag \in {"p", "h2"}) =>
        /\ Len(children) = 1
        /\ children[1].children =
               <<[type |-> "text", text |-> "word", format |-> 0, url |-> ""],
                 [type |-> "text", text |-> "x", format |-> 1, url |-> ""]>>

C18_Witness ==
    /\ BlockOf("word<strong>x</strong>")
    /\ doc[Len(doc)].tag = "h2"
    /\ Len(children) = 1
    /\ Len(children[1].children) = 2


\* a node with text holds text that is not blank
HasText(node) == trim(node.text) # ""

\* every inline node of the run has text, and the run is not empty
RunHasText(run) ==
    /\ run # <<>>
    /\ \A k \in 1..Len(run) : HasText(run[k])

\* a list item of the source with text: its content is not blank once the
\* tags are removed
ItemsWithText(body) ==
    {k \in 1..Len(extractListItems(body)) :
        extractTextContent(extractListItems(body)[k]) # ""}

\* C19: every emitted node has text that is not empty after trimming: no
\* heading, paragraph, quote, list item or inline node is emitted with empty
\* text or without inline children, and a list none of whose items has text is
\* dropped.
C19_NoEmptyNodes ==
    (Returned /\ NoFault) =>
        /\ \A k \in 1..Len(children) :
               /\ InlineRuns(children[k]) # {}
               /\ \A run \in InlineRuns(children[k]) : RunHasText(run)
        /\ (doc[Len(doc)].tag = "ul" /\ ItemsWithText(doc[Len(doc)].body) = {})
               => children = <<>>


\* the entities extractTextContent decodes
Entities == {"&nbsp;", "&amp;", "&lt;", "&gt;", "&quot;", "&#39;"}

\* the text holds an entity, or a <br> that was not made a line break
Undecoded(text) ==
    \/ \E e \in Entities : Includes(text, e)
    \/ IndexOfCI(text, "br>", 1) # 0

\* C20: entity decoding and the substitution of <br> by a line break are
\* applied to every emitted plain text node and every bold text node: no such
\* node holds one of the entities undecoded.
C20_EntitiesDecoded ==
    (Returned /\ NoFault) =>
        \A k \in 1..Len(children) :
            \A run \in InlineRuns(children[k]) :
                \A j \in 1..Len(run) :
                    Kind(run[j]) \in {"text", "bold"} => ~Undecoded(run[j].text)

--------------------------------------------------------------------------
(* Claims about the topic history                                          *)

\* a step of the given TopicHistory method
HistStep(op) == histOp'.op = op /\ calls' = calls + 1

\* C24: after clearHistory() the history of every persona is empty, so that
\* isTopicUsed is false for every topic; after clearHistory(p) persona p's
\* history is empty and every other persona's history is as before.
C24_ClearHistory ==
    [][HistStep("clearHistory") =>
           IF histOp'.persona = ""
           THEN AllEmpty(file')
           ELSE file' = [file EXCEPT ![histOp'.persona] = <<>>]]_vars

NoDuplicates(seq) == \A i, j \in 1..Len(seq) : i # j => seq[i] # seq[j]

\* C28: after recordTopic the persona's history holds no topic key twice,
\* holds at most maxHistoryPerPersona keys and has the recorded key at index
\* 0; a key that was in the history is moved to the front and the length
\* stays; the history of every other persona is unchanged.
C28_RecordTopic ==
    [][HistStep("recordTopic") =>
           LET Recorded(p, key) ==
                   /\ NoDuplicates(file'[p])
                   /\ Len(file'[p]) <= maxHistoryPerPersona
                   /\ file'[p][1] = key
                   /\ InSeq(file[p], key) => Len(file'[p]) = Len(file[p])
                   /\ \A q \in Personas \ {p} : file'[q] = file[q]
           IN  Recorded(histOp'.persona, histOp'.key)]_vars

\* a key of a full history was recorded again, next to another persona's
\* history
C28_Witness ==
    /\ histOp.op = "recordTopic"
    /\ histOp.used
    /\ Len(file[histOp.persona]) = maxHistoryPerPersona
    /\ file[histOp.persona][1] = histOp.key
    /\ \E q \in Personas \ {histOp.persona} : file[q] # <<>>

\* a step of selectTopic for persona p
SelectStep(p) == pending[p] = NoTopic /\ pending'[p] # NoTopic

\* C29: getAvailableTopic returns a combination that is not in the persona's
\* history when there is one, and leaves the history as it is; when every
\* combination is in the history it empties that persona's history and
\* returns any combination.  With every returned topic recorded, no
\* combination is returned twice before all were returned.
C29_AvailableTopic ==
    [][\A p \in Personas :
           SelectStep(p) =>
               /\ IF Available(file, p, HistKeywords, HistTemplates) # {}
                  THEN /\ pending'[p] \in Available(file, p, HistKeywords, HistTemplates)
                       /\ file' = file
                  ELSE /\ pending'[p] \in Combinations(HistKeywords, HistTemplates)
                       /\ file' = [file EXCEPT ![p] = <<>>]
               /\ NoDuplicates(served'[p])]_vars

\* every combination was returned once and recorded, on top of a history of
\* other topics, and the next call emptied the history
C29_Witness ==
    /\ histOp.op = "getAvailableTopic"
    /\ histOp.reset
    /\ file[histOp.persona] = <<>>
    /\ \E q \in Personas \ {histOp.persona} :
           /\ Len(served[q]) = Cardinality(Combinations(HistKeywords, HistTemplates))
           /\ Len(file[q]) = maxHistoryPerPersona

--------------------------------------------------------------------------
(* Claims about the batch and the retries                                  *)

\* the indices of the entries of a sequence of records
Indices(entries) == {entries[k].index : k \in 1..Len(entries)}

\* C25: generateBatch(count) attempts the posts 1..count in index order and
\* never more; every failed post is in errors with its index and message and
\* every created post is in results, so that results.length + errors.length
\* is the number of attempts and, on return, count. With autoSchedule the post
\* i is created with publishDates[i]: no created post has the slot of a failed
\* post.
C25_BatchCompletes ==
    (batch.state # "idle") =>
        LET n == Len(batch.attempts)
            Failed == {k \in 1..n : batch.attempts[k].outcome # "created"}
        IN  /\ n <= batch.count
            /\ \A k \in 1..n : batch.attempts[k].index = k
            /\ Indices(batch.errors) = Failed
            /\ Indices(batch.results) = (1..n) \ Failed
            /\ \A k \in 1..Len(batch.errors) :
                   batch.errors[k].error = batch.attempts[batch.errors[k].index].outcome
            /\ Len(batch.results) + Len(batch.errors) = n
            /\ (batch.state = "returned") => n = batch.count
            /\ batch.autoSchedule =>
                   /\ \A k \in 1..n :
                          batch.attempts[k].publishDate = batch.publishDates[k]
                   /\ \A k \in 1..Len(batch.results) :
                          /\ batch.results[k].publishDate
                                 = batch.publishDates[batch.results[k].index]
                          /\ \A f \in Failed :
                                 batch.results[k].publishDate # batch.publishDates[f]

\* a scheduled batch of three posts has returned: the second post failed and
\* the third one was created after it
C25_Witness ==
    /\ batch.state = "returned"
    /\ batch.autoSchedule
    /\ batch.count = 3
    /\ Indices(batch.errors) = {2}
    /\ Indices(batch.results) = {1, 3}
    /\ batch.results[2].publishDate = batch.publishDates[3]

\* the calls of apiFunction in a trace, in order
RECURSIVE CallsOf(_)
CallsOf(trace) ==
    IF trace = <<>> THEN <<>>
    ELSE (IF Head(trace).kind = "call" THEN <<Head(trace)>> ELSE <<>>)
             \o CallsOf(Tail(trace))

\* retryApiCall behaves as its loop says, in every state of a call
RetryBounded ==
    (retry.state # "idle") =>
        LET trace == retry.trace
            n == Len(trace)
            made == CallsOf(trace)
        IN  /\ Len(made) <= maxRetries
            /\ \A k \in 1..Len(made) : made[k].attempt = k
            \* the first attempt that resolves is the last thing done
            /\ \A k \in 1..n : (trace[k].kind = "call" /\ trace[k].ok) => k = n
            /\ (retry.state = "returned") <=> (n > 0 /\ trace[n].kind = "call" /\ trace[n].ok)
            /\ (retry.state = "returned") => retry.result = trace[n].outcome
            \* a sleep follows a failed attempt that is not the last one and
            \* lasts retryDelay * attempt; the next attempt follows it
            /\ \A k \in 1..n :
                   (trace[k].kind = "sleep") =>
                       /\ k > 1
                       /\ trace[k - 1].kind = "call"
                       /\ ~trace[k - 1].ok
                       /\ trace[k - 1].attempt = trace[k].attempt
                       /\ trace[k].attempt < maxRetries
                       /\ trace[k].delay = retryDelay * trace[k].attempt
                       /\ IF k < n THEN trace[k + 1].kind = "call"
                          ELSE retry.state = "calling" /\ retry.attempt <= maxRetries
            /\ \A k \in 1..(n - 1) :
                   (trace[k].kind = "call" /\ trace[k].attempt < maxRetries) =>
                       trace[k + 1].kind = "sleep"
            \* after maxRetries failures the last error is thrown
            /\ (retry.state = "threw") =>
                   /\ Len(made) = maxRetries
                   /\ \A k \in 1..maxRetries : ~made[k].ok
                   /\ trace[n].kind = "call"
                   /\ retry.thrown = made[maxRetries].outcome

RetryDone == retry.state \in {"returned", "threw"}

\* C27: retryApiCall calls apiFunction at most maxRetries = 3 times, returns
\* the result of the first attempt that resolves and attempts nothing after
\* it, sleeps retryDelay * attempt after a failed attempt only when another
\* attempt follows, throws the error of the third attempt after three
\* failures, and always ends.
C27_RetryTerminates == []RetryBounded /\ <>RetryDone

\* three attempts failed with different errors: the call slept 5000 and 10000
\* and threw the third error
C27_Witness ==
    /\ retry.state = "threw"
    /\ retry.thrown = "network"
    /\ Len(retry.trace) = 5
    /\ retry.trace[1].outcome = "timeout"
    /\ retry.trace[2].delay = 5000
    /\ retry.trace[3].outcome = "rate limit"
    /\ retry.trace[4].delay = 10000
    /\ retry.trace[5].outcome = "network"

\* the entries of a kind in the trace of generateFeaturedImage
StepsOf(kind) == {k \in 1..Len(img.trace) : img.trace[k].kind = kind}

\* the attempt a of generateFeaturedImage failed: nothing was generated, or
\* the last upload it may make was rejected
ImageAttemptFailed(a) ==
    \E k \in 1..Len(img.trace) :
        /\ img.trace[k].attempt = a
        /\ ~img.trace[k].ok
        /\ \/ img.trace[k].kind = "generate"
           \/ img.trace[k].kind = "upload" /\ img.trace[k].upload = imageMaxRetries

\* C30: generateFeaturedImage calls generateImageFromPrompt at most 3 times
\* and ghost.images.upload at most 3 times for each generated image; the
\* first upload that succeeds ends the call, which returns the descriptor
\* with the uploaded URL and records the style; when all three attempts have
\* failed the call returns the fallback descriptor without URL and does not
\* throw; in every other state the style history is as it was selected from.
C30_ImageRetries ==
    (img.state # "idle") =>
        LET trace == img.trace
            n == Len(trace)
            Success == n > 0 /\ trace[n].kind = "upload" /\ trace[n].ok
        IN  /\ Cardinality(StepsOf("generate")) <= imageMaxRetries
            /\ \A k \in StepsOf("generate") : trace[k].attempt \in 1..imageMaxRetries
            /\ \A j, k \in StepsOf("generate") : trace[j].attempt = trace[k].attempt => j = k
            /\ \A a \in 1..imageMaxRetries :
                   Cardinality({k \in StepsOf("upload") : trace[k].attempt = a})
                       <= imageMaxRetries
            /\ \A k \in StepsOf("upload") :
                   \E g \in StepsOf("generate") :
                       g < k /\ trace[g].attempt = trace[k].attempt /\ trace[g].ok
            /\ \A k \in StepsOf("upload") : trace[k].ok => k = n
            /\ img.state # "threw"
            /\ Success <=> (img.state = "returned" /\ img.result.provider = "gemini-abstract")
            /\ Success =>
                   /\ img.result.url \in UploadUrls
                   /\ img.result.style = img.style
                   /\ img.recentStyles = recordUsedStyle(img.selected, img.style)
            /\ ~Success => img.recentStyles = img.selected
            /\ (img.state = "returned" /\ ~Success) =>
                   /\ \A a \in 1..imageMaxRetries : ImageAttemptFailed(a)
                   /\ img.result = getFallback
                   /\ img.result.url = ""
            /\ (\A a \in 1..imageMaxRetries : ImageAttemptFailed(a)) =>
                   /\ ~Success
                   /\ img.state = "returned" \/ img.attempt > imageMaxRetries

\* nothing was generated at first, the second image was rejected three times
\* by Ghost, the third one was uploaded at the second try
C30_Witness ==
    /\ img.state = "returned"
    /\ img.result.provider = "gemini-abstract"
    /\ Cardinality(StepsOf("generate")) = 3
    /\ Cardinality(StepsOf("upload")) = 5
    /\ InSeq(img.recentStyles, img.style)
    /\ ~InSeq(img.selected, img.style)

====
